---- MODULE Spec2Model ----
(***************************************************************************)
(* FinProAI: the nutrition-resolution pipeline of deepseek_api.py          *)
(* (DeepSeekNutritionAPI), its caller get_nutrition_from_prediction in     *)
(* app.py and the persistence of the resolved bundle by                    *)
(* NutritionDatabase.add_daily_entry in database.py.                       *)
(*                                                                         *)
(* Python strings are TLA+ strings (TLC evaluates Len, SubSeq and \o on    *)
(* them).  A Python value is a tagged record, a dict is a function from    *)
(* its keys to values, a float is an exact decimal m / 10^e, and the       *)
(* result of a call is an outcome: a returned value or a raised exception. *)
(***************************************************************************)
EXTENDS Integers, Sequences, FiniteSets, TLC

-----------------------------------------------------------------------------
(* Python values *)

\* str; int or float (the decimal n / 10^e); bool; None; a datetime's isoformat()
PyStr(x) == [t |-> "str", s |-> x, n |-> 0, e |-> 0]
PyNum(m, e) == [t |-> "num", s |-> "", n |-> m, e |-> e]
PyInt(x) == PyNum(x, 0)
PyBool(b) == [t |-> "bool", s |-> "", n |-> IF b THEN 1 ELSE 0, e |-> 0]
PyTime(x) == [t |-> "time", s |-> "", n |-> x, e |-> 0]
PyNone == [t |-> "none", s |-> "", n |-> 0, e |-> 0]

\* isinstance(v, str)
IsStr(v) == v.t = "str"

\* isinstance(v, (int, float)): a bool is an int
IsNumber(v) == v.t \in {"num", "bool"}

EmptyDict == [k \in {} |-> PyNone]

DictSet(d, k, v) == [x \in (DOMAIN d) \cup {k} |-> IF x = k THEN v ELSE d[x]]

DictWithout(d, k) == [x \in (DOMAIN d) \ {k} |-> d[x]]

\* The outcome of a call: exc = "" and the returned value, or the exception.
Ok(v) == [exc |-> "", val |-> v]
Raise(e) == [exc |-> e, val |-> EmptyDict]
Raised(o) == o.exc # ""

-----------------------------------------------------------------------------
(* str methods and the regular expressions of the source, on characters *)

\* The character at index i (from 1), "" outside the string.
Ch(s, i) == IF i >= 1 /\ i <= Len(s) THEN SubSeq(s, i, i) ELSE ""

\* The least element of a set of indices, 0 when it is empty.
LeastIn(S) == IF S = {} THEN 0 ELSE CHOOSE j \in S : \A k \in S : j <= k

\* s.find(sub) + 1: the index of the first occurrence of sub, 0 when none
Find(s, sub) ==
    LeastIn({i \in 1..(Len(s) - Len(sub) + 1) : SubSeq(s, i, i + Len(sub) - 1) = sub})

DigitChars == "0123456789"
UpperChars == "ABCDEFGHIJKLMNOPQRSTUVWXYZ"
LowerChars == "abcdefghijklmnopqrstuvwxyz"

IsDigit(c) == c \in {"0", "1", "2", "3", "4", "5", "6", "7", "8", "9"}

DigitVal(c) == Find(DigitChars, c) - 1

IsSpace(c) == c \in {" ", "\n", "\t", "\r"}

LowerCh(c) == IF c # "" /\ Find(UpperChars, c) # 0 THEN Ch(LowerChars, Find(UpperChars, c)) ELSE c

\* str.lower(), one half of the string after the other
RECURSIVE Lower(_)
Lower(s) ==
    IF Len(s) <= 1 THEN LowerCh(s)
    ELSE Lower(SubSeq(s, 1, Len(s) \div 2)) \o Lower(SubSeq(s, (Len(s) \div 2) + 1, Len(s)))

StartsWith(s, p) == Len(s) >= Len(p) /\ SubSeq(s, 1, Len(p)) = p

\* `sub in s` for strings
Contains(s, sub) == sub = "" \/ Find(s, sub) # 0

\* str.replace(old, ''): every non-overlapping occurrence, left to right
RECURSIVE Remove(_, _)
Remove(s, old) ==
    LET i == Find(s, old)
    IN  IF old = "" \/ i = 0 THEN s
        ELSE SubSeq(s, 1, i - 1) \o Remove(SubSeq(s, i + Len(old), Len(s)), old)

\* str.strip()
Strip(s) ==
    LET kept == {i \in 1..Len(s) : ~IsSpace(Ch(s, i))}
    IN  IF kept = {} THEN ""
        ELSE SubSeq(s, LeastIn(kept), CHOOSE j \in kept : \A k \in kept : k <= j)

\* The index after the run of digits that starts at i (i itself when none).
RECURSIVE DigitRunEnd(_, _)
DigitRunEnd(s, i) == IF IsDigit(Ch(s, i)) THEN DigitRunEnd(s, i + 1) ELSE i

\* The index of the first digit at or after i, 0 when there is none.
FirstDigitPos(s, i) == LeastIn({j \in i..Len(s) : IsDigit(Ch(s, j))})

\* The index after the match of \d+\.?\d* that starts at the digit at p.
NumberTokenEnd(s, p) ==
    LET a == DigitRunEnd(s, p)
    IN  IF a <= Len(s) /\ Ch(s, a) = "." THEN DigitRunEnd(s, a + 1) ELSE a

\* re.findall(r'\d+\.?\d*', s)[0], "" when findall returns the empty list
FirstNumberToken(s) ==
    LET p == FirstDigitPos(s, 1)
    IN  IF p = 0 THEN "" ELSE SubSeq(s, p, NumberTokenEnd(s, p) - 1)

-----------------------------------------------------------------------------
(* floats, as exact decimals m / 10^e, and their formatting *)

RECURSIVE Pow10(_)
Pow10(k) == IF k = 0 THEN 1 ELSE 10 * Pow10(k - 1)

Dec(m, e) == [m |-> m, e |-> e]

\* The same decimal without trailing zeros of the fraction.
RECURSIVE Normal(_)
Normal(d) ==
    IF d.e > 0 /\ d.m % 10 = 0 THEN Normal(Dec(d.m \div 10, d.e - 1)) ELSE d

\* The value of a string of digits.
RECURSIVE DigitsVal(_)
DigitsVal(s) ==
    IF s = "" THEN 0
    ELSE DigitsVal(SubSeq(s, 1, Len(s) - 1)) * 10 + DigitVal(Ch(s, Len(s)))

\* float(tok) for a token matched by \d+\.?\d*
FloatOfToken(tok) ==
    LET a == DigitRunEnd(tok, 1)
        frac == SubSeq(tok, a + 1, Len(tok))
    IN  Normal(Dec(DigitsVal(SubSeq(tok, 1, a - 1)) * Pow10(Len(frac)) + DigitsVal(frac),
                   Len(frac)))

RECURSIVE IntToStr(_)
IntToStr(n) ==
    IF n < 10 THEN Ch(DigitChars, n + 1)
    ELSE IntToStr(n \div 10) \o Ch(DigitChars, (n % 10) + 1)

\* The decimal d rounded to nd places, as an integer count of 10^-nd.  A decimal
\* that lies halfway between two neighbours is decided by the double the
\* product really is: tie = "below" or "above" when the double lies off the
\* halfway point, "exact" when it is the halfway point (round-half-even).
RoundPlaces(d, nd, tie) ==
    IF d.e <= nd THEN d.m * Pow10(nd - d.e)
    ELSE LET unit == Pow10(d.e - nd)
             q == d.m \div unit
             r == d.m % unit
         IN  IF 2 * r < unit THEN q
             ELSE IF 2 * r > unit THEN q + 1
             ELSE IF tie = "below" THEN q
             ELSE IF tie = "above" THEN q + 1
             ELSE IF q % 2 = 0 THEN q ELSE q + 1

\* IEEE-754 doubles: where x * 0.7 and x * 1.3 fall when the decimal product
\* is a halfway case of the format that follows, for the operands of the model.
\* <<m, e, factor in tenths>>
DoubleBelowTie == {<<45, 0, 7>>, <<5, 1, 7>>}
DoubleAboveTie == {<<5, 1, 13>>}

TieOf(x, f) ==
    IF <<x.m, x.e, f>> \in DoubleBelowTie THEN "below"
    ELSE IF <<x.m, x.e, f>> \in DoubleAboveTie THEN "above"
    ELSE "exact"

\* x * factor, the factor in tenths
FloatMul(x, f) == Dec(x.m * f, x.e + 1)

\* f"{d:.1f}"
Fixed1(d, tie) ==
    LET t == RoundPlaces(d, 1, tie)
    IN  IntToStr(t \div 10) \o "." \o IntToStr(t % 10)

\* f"{x * factor:.1f}"
Format1f(x, f) == Fixed1(FloatMul(x, f), TieOf(x, f))

\* f"{x * factor:.0f}"
Format0f(x, f) == IntToStr(RoundPlaces(FloatMul(x, f), 0, TieOf(x, f)))

-----------------------------------------------------------------------------
(* DeepSeekNutritionAPI.adjust_for_portion *)

\* dict.get(key, default)
DictGet(tbl, key, default) == IF key \in DOMAIN tbl THEN tbl[key] ELSE default

\* portion_factors of adjust_for_portion, in tenths
PortionFactorsAdjust ==
    [small |-> 7, normal |-> 10, large |-> 13, kecil |-> 7, sedang |-> 10, besar |-> 13]

\* factor = portion_factors.get(portion_size.lower(), 1.0)
AdjustFactor(label) == DictGet(PortionFactorsAdjust, Lower(label), 10)

NutrientFields == <<"calories", "protein", "fat", "carbs", "fiber", "sugar">>

\* A variant of the field's rewrite that writes the product without decimals;
\* the one-decimal property must tell it apart.
AdjustValue_NoDecimal(value_str, factor) ==
    LET tok == FirstNumberToken(value_str)
    IN  IF tok = "" THEN value_str
        ELSE Format0f(FloatOfToken(tok), factor) \o " " \o Strip(Remove(value_str, tok))

\* One field of the loop: the first number of the value is scaled and written
\* with one decimal, and what is left of the value without that number's text
\* is the unit.
AdjustValue(value_str, factor) ==
    LET tok == FirstNumberToken(value_str)
    IN  IF tok = "" THEN value_str
        ELSE Format1f(FloatOfToken(tok), factor) \o " " \o Strip(Remove(value_str, tok))

\* The loop over nutrient_fields from field i on; re.findall raises TypeError on
\* a value that is not a string.
RECURSIVE AdjustFields(_, _, _)
AdjustFields(o, i, factor) ==
    IF Raised(o) \/ i > Len(NutrientFields) THEN o
    ELSE LET field == NutrientFields[i]
             d == o.val
         IN  IF field \notin DOMAIN d THEN AdjustFields(o, i + 1, factor)
             ELSE IF ~IsStr(d[field]) THEN Raise("TypeError")
             ELSE AdjustFields(Ok(DictSet(d, field, PyStr(AdjustValue(d[field].s, factor)))),
                               i + 1, factor)

\* A variant that first gives every absent nutrient field a zero value; the
\* frame property must tell it apart.
adjust_for_portion_FillMissing(nutrition_data, portion_size) ==
    IF ~IsStr(portion_size) THEN Raise("AttributeError")
    ELSE LET filled == [k \in DOMAIN nutrition_data \cup
                              {NutrientFields[i] : i \in 1..Len(NutrientFields)} |->
                          IF k \in DOMAIN nutrition_data THEN nutrition_data[k]
                          ELSE PyStr("0 g")]
             factor == AdjustFactor(portion_size.s)
         IN  IF factor # 10 THEN AdjustFields(Ok(filled), 1, factor)
             ELSE Ok(filled)

\* adjust_for_portion(nutrition_data, portion_size), nutrition_data a dict
adjust_for_portion(nutrition_data, portion_size) ==
    IF ~IsStr(portion_size) THEN Raise("AttributeError")
    ELSE LET factor == AdjustFactor(portion_size.s)
         IN  IF factor # 10 THEN AdjustFields(Ok(nutrition_data), 1, factor)
             ELSE Ok(nutrition_data)

-----------------------------------------------------------------------------
(* DeepSeekNutritionAPI.get_fallback_nutrition *)

\* any(word in food_lower for word in words)
AnyWordIn(words, food_lower) == \E w \in words : Contains(food_lower, w)

GrainWords == {"nasi", "rice", "roti", "bread", "mie", "noodle"}
MeatWords == {"ayam", "chicken", "daging", "meat", "ikan", "fish"}
VegetableWords == {"sayur", "vegetable", "salad", "buah", "fruit"}
FriedWords == {"goreng", "fried", "krispi"}

\* A variant that tests the fried words before the other sets; the priority
\* property must tell it apart.
FallbackBase_FriedFirst(food_name) ==
    LET food_lower == Lower(food_name)
    IN  IF AnyWordIn(FriedWords, food_lower)
            THEN [calories |-> 300, protein |-> 15, fat |-> 20, carbs |-> 20]
        ELSE IF AnyWordIn(GrainWords, food_lower)
            THEN [calories |-> 250, protein |-> 8, fat |-> 5, carbs |-> 45]
        ELSE IF AnyWordIn(MeatWords, food_lower)
            THEN [calories |-> 200, protein |-> 25, fat |-> 10, carbs |-> 0]
        ELSE IF AnyWordIn(VegetableWords, food_lower)
            THEN [calories |-> 80, protein |-> 3, fat |-> 1, carbs |-> 15]
        ELSE [calories |-> 200, protein |-> 10, fat |-> 8, carbs |-> 25]

FallbackBase(food_name) ==
    LET food_lower == Lower(food_name)
    IN  IF AnyWordIn(GrainWords, food_lower)
            THEN [calories |-> 250, protein |-> 8, fat |-> 5, carbs |-> 45]
        ELSE IF AnyWordIn(MeatWords, food_lower)
            THEN [calories |-> 200, protein |-> 25, fat |-> 10, carbs |-> 0]
        ELSE IF AnyWordIn(VegetableWords, food_lower)
            THEN [calories |-> 80, protein |-> 3, fat |-> 1, carbs |-> 15]
        ELSE IF AnyWordIn(FriedWords, food_lower)
            THEN [calories |-> 300, protein |-> 15, fat |-> 20, carbs |-> 20]
        ELSE [calories |-> 200, protein |-> 10, fat |-> 8, carbs |-> 25]

\* portion_factors of get_fallback_nutrition, in tenths
PortionFactorsFallback ==
    [small |-> 7, kecil |-> 7, normal |-> 10, sedang |-> 10, large |-> 13, besar |-> 13]

\* A variant that looks the label up as it is written; the case-insensitive
\* lookup property must tell it apart.
FallbackFactor_CaseSensitive(label) == DictGet(PortionFactorsFallback, label, 10)

\* factor = portion_factors.get(portion_size.lower(), 1.0)
FallbackFactor(label) == DictGet(PortionFactorsFallback, Lower(label), 10)

\* A variant whose notes carry the time of the call; the independence of
\* calls must tell it apart.
get_fallback_nutrition_TimeInNotes(food_name, portion_size, now) ==
    IF ~IsStr(portion_size) THEN Raise("AttributeError")
    ELSE LET base == FallbackBase(food_name)
             factor == FallbackFactor(portion_size.s)
         IN  Ok([food_name |-> PyStr(food_name),
                 portion_size |-> portion_size,
                 calories |-> PyStr(Format0f(Dec(base.calories, 0), factor) \o " kcal"),
                 protein |-> PyStr(Format0f(Dec(base.protein, 0), factor) \o " g"),
                 fat |-> PyStr(Format0f(Dec(base.fat, 0), factor) \o " g"),
                 carbs |-> PyStr(Format0f(Dec(base.carbs, 0), factor) \o " g"),
                 fiber |-> PyStr(Format0f(Dec(3, 0), factor) \o " g"),
                 sugar |-> PyStr(Format0f(Dec(5, 0), factor) \o " g"),
                 sodium |-> PyStr(Format0f(Dec(200, 0), factor) \o " mg"),
                 notes |-> PyStr("Estimasi untuk " \o food_name \o " (porsi "
                                 \o portion_size.s \o ") " \o IntToStr(now)),
                 source |-> PyStr("fallback_estimation"),
                 analyzed_at |-> PyTime(now)])

\* A variant that leaves the fiber constant unscaled; the scaling property must
\* tell it apart.
get_fallback_nutrition_FiberUnscaled(food_name, portion_size, now) ==
    IF ~IsStr(portion_size) THEN Raise("AttributeError")
    ELSE LET base == FallbackBase(food_name)
             factor == FallbackFactor(portion_size.s)
         IN  Ok([food_name |-> PyStr(food_name),
                 portion_size |-> portion_size,
                 calories |-> PyStr(Format0f(Dec(base.calories, 0), factor) \o " kcal"),
                 protein |-> PyStr(Format0f(Dec(base.protein, 0), factor) \o " g"),
                 fat |-> PyStr(Format0f(Dec(base.fat, 0), factor) \o " g"),
                 carbs |-> PyStr(Format0f(Dec(base.carbs, 0), factor) \o " g"),
                 fiber |-> PyStr("3 g"),
                 sugar |-> PyStr(Format0f(Dec(5, 0), factor) \o " g"),
                 sodium |-> PyStr(Format0f(Dec(200, 0), factor) \o " mg"),
                 notes |-> PyStr("Estimasi untuk " \o food_name \o " (porsi "
                                 \o portion_size.s \o ")"),
                 source |-> PyStr("fallback_estimation"),
                 analyzed_at |-> PyTime(now)])

\* get_fallback_nutrition(food_name, portion_size) at time now
get_fallback_nutrition(food_name, portion_size, now) ==
    IF ~IsStr(portion_size) THEN Raise("AttributeError")
    ELSE LET base == FallbackBase(food_name)
             factor == FallbackFactor(portion_size.s)
         IN  Ok([food_name |-> PyStr(food_name),
                 portion_size |-> portion_size,
                 calories |-> PyStr(Format0f(Dec(base.calories, 0), factor) \o " kcal"),
                 protein |-> PyStr(Format0f(Dec(base.protein, 0), factor) \o " g"),
                 fat |-> PyStr(Format0f(Dec(base.fat, 0), factor) \o " g"),
                 carbs |-> PyStr(Format0f(Dec(base.carbs, 0), factor) \o " g"),
                 fiber |-> PyStr(Format0f(Dec(3, 0), factor) \o " g"),
                 sugar |-> PyStr(Format0f(Dec(5, 0), factor) \o " g"),
                 sodium |-> PyStr(Format0f(Dec(200, 0), factor) \o " mg"),
                 notes |-> PyStr("Estimasi untuk " \o food_name \o " (porsi "
                                 \o portion_size.s \o ")"),
                 source |-> PyStr("fallback_estimation"),
                 analyzed_at |-> PyTime(now)])

-----------------------------------------------------------------------------
(* json.loads, for the JSON texts of the model: an object whose members are   *)
(* scalars, or a scalar; strings without escapes, numbers without exponent.   *)

JScalar(v) == [kind |-> "scalar", d |-> EmptyDict, v |-> v]
JDict(d) == [kind |-> "dict", d |-> d, v |-> PyNone]

JFail == [ok |-> FALSE, val |-> JScalar(PyNone), next |-> 0]
JOk(v, n) == [ok |-> TRUE, val |-> v, next |-> n]

\* The index of the first character at or after i that is not whitespace.
RECURSIVE SkipWs(_, _)
SkipWs(s, i) == IF IsSpace(Ch(s, i)) THEN SkipWs(s, i + 1) ELSE i

\* The index of the quote that closes a string opened before i, 0 when the
\* string is not closed or holds a control character.
RECURSIVE QuoteEnd(_, _)
QuoteEnd(s, i) ==
    IF i > Len(s) \/ Ch(s, i) \in {"\n", "\t", "\r"} THEN 0
    ELSE IF Ch(s, i) = "\"" THEN i
    ELSE QuoteEnd(s, i + 1)

ParseString(s, i) ==
    IF Ch(s, i) # "\"" THEN JFail
    ELSE LET j == QuoteEnd(s, i + 1)
         IN  IF j = 0 THEN JFail
             ELSE JOk(JScalar(PyStr(SubSeq(s, i + 1, j - 1))), j + 1)

\* -? (0 | [1-9][0-9]*) (\. [0-9]+)?
ParseNumber(s, i) ==
    LET neg == Ch(s, i) = "-"
        a == IF neg THEN i + 1 ELSE i
        b == DigitRunEnd(s, a)
        hasFrac == Ch(s, b) = "."
        c == IF hasFrac THEN DigitRunEnd(s, b + 1) ELSE b
        whole == SubSeq(s, a, b - 1)
        frac == SubSeq(s, b + 1, c - 1)
        mag == Normal(Dec(DigitsVal(whole) * Pow10(Len(frac)) + DigitsVal(frac), Len(frac)))
    IN  IF b = a \/ (b - a > 1 /\ Ch(s, a) = "0") \/ (hasFrac /\ c = b + 1) THEN JFail
        ELSE JOk(JScalar(PyNum(IF neg THEN 0 - mag.m ELSE mag.m, mag.e)), c)

ParseLiteral(s, i) ==
    IF SubSeq(s, i, Len(s)) # "" /\ StartsWith(SubSeq(s, i, Len(s)), "null")
        THEN JOk(JScalar(PyNone), i + 4)
    ELSE IF StartsWith(SubSeq(s, i, Len(s)), "true") THEN JOk(JScalar(PyBool(TRUE)), i + 4)
    ELSE IF StartsWith(SubSeq(s, i, Len(s)), "false") THEN JOk(JScalar(PyBool(FALSE)), i + 5)
    ELSE JFail

ParseScalar(s, i) ==
    IF Ch(s, i) = "\"" THEN ParseString(s, i)
    ELSE IF Ch(s, i) = "-" \/ IsDigit(Ch(s, i)) THEN ParseNumber(s, i)
    ELSE ParseLiteral(s, i)

\* The members of an object from index i on, acc the members read so far (a
\* repeated key keeps its last value).
RECURSIVE ParseMembers(_, _, _)
ParseMembers(s, i, acc) ==
    LET k == ParseString(s, SkipWs(s, i))
    IN  IF ~k.ok THEN JFail
        ELSE LET c == SkipWs(s, k.next)
             IN  IF Ch(s, c) # ":" THEN JFail
                 ELSE LET v == ParseScalar(s, SkipWs(s, c + 1))
                      IN  IF ~v.ok THEN JFail
                          ELSE LET e == SkipWs(s, v.next)
                                   acc2 == DictSet(acc, k.val.v.s, v.val.v)
                               IN  IF Ch(s, e) = "," THEN ParseMembers(s, e + 1, acc2)
                                   ELSE IF Ch(s, e) = "}" THEN JOk(JDict(acc2), e + 1)
                                   ELSE JFail

ParseObject(s, i) ==
    LET j == SkipWs(s, i + 1)
    IN  IF Ch(s, j) = "}" THEN JOk(JDict(EmptyDict), j + 1) ELSE ParseMembers(s, j, EmptyDict)

\* json.loads(s): the value, or JSONDecodeError
json_loads(s) ==
    LET i == SkipWs(s, 1)
        r == IF Ch(s, i) = "{" THEN ParseObject(s, i) ELSE ParseScalar(s, i)
    IN  IF r.ok /\ SkipWs(s, r.next) = Len(s) + 1
        THEN [exc |-> "", val |-> r.val]
        ELSE [exc |-> "JSONDecodeError", val |-> JScalar(PyNone)]

\* A TLA+ string cannot hold the backquote: the model writes it "^", a
\* character no payload of the model uses otherwise.
Backquote == "^"
Fence == Backquote \o Backquote \o Backquote
FenceJson == Fence \o "json"

\* re.sub(fence-json | fence, '', content): at each index the longer marker is
\* tried first, and the text removed is not scanned again
RECURSIVE RemoveFences(_)
RemoveFences(s) ==
    LET i == Find(s, Fence)
        marker == IF StartsWith(SubSeq(s, i, Len(s)), FenceJson) THEN FenceJson ELSE Fence
    IN  IF i = 0 THEN s
        ELSE SubSeq(s, 1, i - 1) \o RemoveFences(SubSeq(s, i + Len(marker), Len(s)))

-----------------------------------------------------------------------------
(* DeepSeekNutritionAPI.extract_nutrition_from_text *)

\* The names bound at module level in deepseek_api.py: its imports, its class
\* and its functions.  A name a function reads that is neither one of its
\* locals nor one of these raises NameError.
ModuleNames ==
    {"requests", "json", "re", "Dict", "Any", "List", "Optional", "os",
     "DeepSeekNutritionAPI", "nutrition_api", "get_nutrition_api", "extract_number"}

\* f"{v}" for a str or an int
FormatPy(v) == IF IsStr(v) THEN v.s ELSE IntToStr(v.n)

\* The literal lit, in any case, at index i of text.
MatchLit(text, i, lit) ==
    i + Len(lit) - 1 <= Len(text) /\ Lower(SubSeq(text, i, i + Len(lit) - 1)) = lit

\* (\d+)\s*kcal matched at index p: the group, "" when it does not match
KcalAt(text, p) ==
    IF IsDigit(Ch(text, p)) /\ MatchLit(text, SkipWs(text, DigitRunEnd(text, p)), "kcal")
    THEN SubSeq(text, p, DigitRunEnd(text, p) - 1)
    ELSE ""

\* The index of the first line break at or after q, past the end when none:
\* `.` does not match a line break.
LineEnd(text, q) == LeastIn({j \in q..(Len(text) + 1) : Ch(text, j) \in {"\n", ""}})

\* .*?(\d+) from index q: the group, "" when it does not match
LazyDigits(text, q) ==
    LET j == FirstDigitPos(text, q)
    IN  IF j = 0 \/ j > LineEnd(text, q) THEN ""
        ELSE SubSeq(text, j, DigitRunEnd(text, j) - 1)

\* .*?(\d+\.?\d*)\s*g from index q: the group, "" when it does not match
LazyGrams(text, q) ==
    LET j == LeastIn({k \in q..Len(text) :
                        /\ IsDigit(Ch(text, k))
                        /\ MatchLit(text, SkipWs(text, NumberTokenEnd(text, k)), "g")})
    IN  IF j = 0 \/ j > LineEnd(text, q) THEN ""
        ELSE SubSeq(text, j, NumberTokenEnd(text, j) - 1)

\* (\d+)\s*kcal|kalori.*?(\d+) matched at index p: the group that is not None
CaloriesAt(text, p) ==
    IF KcalAt(text, p) # "" THEN KcalAt(text, p)
    ELSE IF MatchLit(text, p, "kalori") THEN LazyDigits(text, p + 6)
    ELSE ""

\* re.search(r'(\d+)\s*kcal|kalori.*?(\d+)', text, re.IGNORECASE): the first
\* group that is not None, "" when there is no match
SearchCalories(text) ==
    LET p == LeastIn({i \in 1..Len(text) : CaloriesAt(text, i) # ""})
    IN  IF p = 0 THEN "" ELSE CaloriesAt(text, p)

\* The first label of labels, in order, whose pattern label.*?(\d+\.?\d*)\s*g
\* matches at index p.
RECURSIVE GramsAt(_, _, _, _)
GramsAt(text, labels, k, p) ==
    IF k > Len(labels) THEN ""
    ELSE LET g == IF MatchLit(text, p, labels[k])
                  THEN LazyGrams(text, p + Len(labels[k])) ELSE ""
         IN  IF g # "" THEN g ELSE GramsAt(text, labels, k + 1, p)

\* re.search of the alternation of the labels' patterns: the group
SearchGrams(text, labels) ==
    LET p == LeastIn({i \in 1..Len(text) : GramsAt(text, labels, 1, i) # ""})
    IN  IF p = 0 THEN "" ELSE GramsAt(text, labels, 1, p)

\* patterns, without calories
GramPatterns ==
    [protein |-> <<"protein">>, fat |-> <<"fat", "lemak">>,
     carbs |-> <<"carbs", "karbohidrat">>, fiber |-> <<"fiber", "serat">>,
     sugar |-> <<"sugar", "gula">>]

TextDefaults(food_name, portion_size, now) ==
    [food_name |-> PyStr(food_name),
     portion_size |-> portion_size,
     calories |-> PyStr("200 kcal"),
     protein |-> PyStr("10 g"),
     fat |-> PyStr("5 g"),
     carbs |-> PyStr("25 g"),
     fiber |-> PyStr("3 g"),
     sugar |-> PyStr("5 g"),
     sodium |-> PyStr("200 mg"),
     notes |-> PyStr("Analisis untuk " \o food_name \o " (porsi "
                     \o FormatPy(portion_size) \o ")"),
     source |-> PyStr("text_extraction"),
     analyzed_at |-> PyTime(now)]

\* The for loop over patterns: a field whose pattern matched takes the group
\* and its unit, any other keeps its default.
TextFill(text, result) ==
    [k \in DOMAIN result |->
        IF k = "calories"
            THEN IF SearchCalories(text) # ""
                 THEN PyStr(SearchCalories(text) \o " kcal") ELSE result[k]
        ELSE IF k \in DOMAIN GramPatterns
            THEN IF SearchGrams(text, GramPatterns[k]) # ""
                 THEN PyStr(SearchGrams(text, GramPatterns[k]) \o " g") ELSE result[k]
        ELSE result[k]]

\* extract_nutrition_from_text(text, food_name, portion_size) at time now: the
\* dict display that builds result reads the global name datetime.
extract_nutrition_from_text(text, food_name, portion_size, now) ==
    IF "datetime" \notin ModuleNames THEN Raise("NameError")
    ELSE Ok(TextFill(text, TextDefaults(food_name, portion_size, now)))

-----------------------------------------------------------------------------
(* DeepSeekNutritionAPI.__init__, is_available, analyze_food_nutrition *)

\* The key __init__ assigns (its 35 characters are not repeated here).
HardcodedApiKey == "sk-" \o "xxxxxxxxxxxxxxxxxxxxxxxxxxxxxxxx"

\* __init__(api_key): the argument is not read
NewApi(api_key) == [api_key |-> PyStr(HardcodedApiKey)]

\* is_available()
is_available(self) == self.api_key # PyNone /\ Len(self.api_key.s) > 10

\* What the remote service does with the request: the post raises (network,
\* timeout), or it answers with a status and a body.  A body is "invalid" (not
\* JSON: response.json() raises), "no_choices" (JSON without the chat
\* completion's keys), "null_content" (content is null) or "chat" with the
\* content string.
NetworkError == [exc |-> TRUE, status |-> 0, body |-> "", content |-> ""]
HttpError(status) == [exc |-> FALSE, status |-> status, body |-> "invalid", content |-> ""]
HttpBody(body) == [exc |-> FALSE, status |-> 200, body |-> body, content |-> ""]
Chat(content) == [exc |-> FALSE, status |-> 200, body |-> "chat", content |-> content]

\* Lines 96-105: the inner try with the value json.loads returned.  A value
\* that is not a dict raises in adjust_for_portion or at the item assignment.
BundleOfJson(value, portion_size, now) ==
    IF ~IsStr(portion_size) THEN Raise("AttributeError")
    ELSE IF value.kind # "dict" THEN Raise("TypeError")
    ELSE LET adjusted == adjust_for_portion(value.d, portion_size)
         IN  IF Raised(adjusted) THEN adjusted
             ELSE Ok(DictSet(adjusted.val, "analyzed_at", PyTime(now)))

\* A variant that removes the marker with the json tag only; the fence
\* property must tell it apart.
CleanContent_TagOnly(resp) == Strip(Remove(resp.content, FenceJson))

\* Line 93: content = re.sub(...).strip()
CleanContent(resp) == Strip(RemoveFences(resp.content))

\* The post returned status 200 with a content string that json.loads rejects:
\* line 109 is reached.
DecodeFails(resp) ==
    /\ ~resp.exc
    /\ resp.status = 200
    /\ resp.body = "chat"
    /\ json_loads(CleanContent(resp)).exc = "JSONDecodeError"

\* Lines 88-113: the body of the outer try once the post has returned.
OnResponse(resp, food_name, portion_size, now) ==
    IF resp.status # 200 THEN get_fallback_nutrition(food_name, portion_size, now)
    ELSE IF resp.body = "invalid" THEN Raise("JSONDecodeError")
    ELSE IF resp.body = "no_choices" THEN Raise("KeyError")
    ELSE IF resp.body = "null_content" THEN Raise("TypeError")
    ELSE IF DecodeFails(resp)
        THEN extract_nutrition_from_text(CleanContent(resp), food_name, portion_size, now)
    ELSE BundleOfJson(json_loads(CleanContent(resp)).val, portion_size, now)

\* A variant without the except clause: what the try block raises reaches the
\* caller; the fallback-on-failure property must tell it apart.
AfterPost_NoHandler(resp, food_name, portion_size, now) ==
    IF resp.exc THEN Raise("RequestException")
    ELSE OnResponse(resp, food_name, portion_size, now)

\* Lines 41-117: try ... except Exception: return the fallback.  An exception
\* of the handler itself reaches the caller.
AfterPost(resp, food_name, portion_size, now) ==
    LET tried == IF resp.exc THEN Raise("RequestException")
                 ELSE OnResponse(resp, food_name, portion_size, now)
    IN  IF Raised(tried) THEN get_fallback_nutrition(food_name, portion_size, now)
        ELSE tried

-----------------------------------------------------------------------------
(* extract_number of database.py and of deepseek_api.py *)

\* float(v) of a number
FloatOfNumber(v) == Normal(Dec(v.n, v.e))

\* ''.join(c for c in val if c.isdigit() or c == '.')
RECURSIVE DigitsAndDots(_)
DigitsAndDots(s) ==
    IF Len(s) <= 1 THEN (IF IsDigit(s) \/ s = "." THEN s ELSE "")
    ELSE DigitsAndDots(SubSeq(s, 1, Len(s) \div 2))
         \o DigitsAndDots(SubSeq(s, (Len(s) \div 2) + 1, Len(s)))

\* float(num_str) for a string of digits and dots: ValueError unless it holds
\* a digit and at most one dot
FloatOfDigitsAndDots(num_str) ==
    LET d == Find(num_str, ".")
        whole == IF d = 0 THEN num_str ELSE SubSeq(num_str, 1, d - 1)
        frac == IF d = 0 THEN "" ELSE SubSeq(num_str, d + 1, Len(num_str))
    IN  IF Find(frac, ".") # 0 \/ whole \o frac = "" THEN [ok |-> FALSE, val |-> Dec(0, 0)]
        ELSE [ok |-> TRUE,
              val |-> Normal(Dec(DigitsVal(whole) * Pow10(Len(frac)) + DigitsVal(frac),
                                 Len(frac)))]

\* An int beyond the range of a double, 10 ** 400 say: float(val) raises
\* OverflowError, and the numeric branch of both extractors is outside any try.
PyBigInt == [t |-> "bigint", s |-> "", n |-> 0, e |-> 0]

\* database.extract_number(val), for every input but PyBigInt
db_extract_number(val) ==
    IF IsNumber(val) THEN FloatOfNumber(val)
    ELSE IF IsStr(val)
        THEN LET num_str == DigitsAndDots(val.s)
                 f == FloatOfDigitsAndDots(num_str)
             IN  IF num_str # "" /\ f.ok THEN f.val ELSE Dec(0, 0)
    ELSE Dec(0, 0)

\* deepseek_api.extract_number(value), for every input but PyBigInt
api_extract_number(value) ==
    IF IsNumber(value) THEN FloatOfNumber(value)
    ELSE IF IsStr(value)
        THEN LET tok == FirstNumberToken(value.s)
             IN  IF tok # "" THEN FloatOfToken(tok) ELSE Dec(0, 0)
    ELSE Dec(0, 0)

-----------------------------------------------------------------------------
(* app.py: get_nutrition_from_prediction; database.py: add_daily_entry *)

\* str(e) of the exceptions analyze_food_nutrition lets through
ExcMessage(exc) ==
    IF exc = "AttributeError" THEN "'int' object has no attribute 'lower'" ELSE exc

\* get_nutrition_from_prediction(food_name, portion_grams) once the call of
\* analyze_food_nutrition has ended with `analysis`: the except branch builds
\* the estimate from the weight (a multiple of 10 grams in the model, so that
\* no product is a halfway case of its format).
get_nutrition_from_prediction(analysis, portion_grams) ==
    IF Raised(analysis)
    THEN [calories |-> PyNum(portion_grams * 15, 1),
          protein |-> PyStr(Fixed1(Dec(portion_grams, 1), "exact") \o " g"),
          fat |-> PyStr(Fixed1(Dec(portion_grams * 5, 2), "exact") \o " g"),
          carbs |-> PyStr(Fixed1(Dec(portion_grams * 2, 1), "exact") \o " g"),
          notes |-> PyStr("Error: " \o ExcMessage(analysis.exc))]
    ELSE analysis.val

\* The row add_daily_entry inserts for entry_data = {food, portion_grams,
\* nutrition, water, exercise, date}.
EntryRow(user_id, entry_data) ==
    LET nutrition == entry_data.nutrition
    IN  [user_id |-> user_id,
         date |-> entry_data.date,
         food_name |-> entry_data.food,
         portion |-> IntToStr(entry_data.portion_grams) \o "g",
         calories |-> db_extract_number(DictGet(nutrition, "calories", PyStr("0 kcal"))),
         protein |-> db_extract_number(DictGet(nutrition, "protein", PyStr("0 g"))),
         fat |-> db_extract_number(DictGet(nutrition, "fat", PyStr("0 g"))),
         carbs |-> db_extract_number(DictGet(nutrition, "carbs", PyStr("0 g"))),
         water_ml |-> entry_data.water,
         exercise_min |-> entry_data.exercise,
         nutrition_data |-> nutrition]

(* database.py: the daily_entries table.  The table is the sequence of its    *)
(* rows in insertion order; a row carries the id AUTOINCREMENT gave it.        *)

\* The row as stored under the id the insert was given.
StoredRow(id, row) == [id |-> id] @@ row

\* The rows of a table, as a set
Rows(tbl) == {tbl[i] : i \in 1..Len(tbl)}

\* A variant of the insert that, for a food the user already has stored,
\* rewrites the stored row instead of adding one; the immutability of stored
\* entries must tell it apart.
InsertEntry_Upsert(tbl, id, user_id, entry_data) ==
    LET row == EntryRow(user_id, entry_data)
        same(r) == r.user_id = user_id /\ r.food_name = row.food_name
    IN  IF \E r \in Rows(tbl) : same(r)
        THEN [i \in 1..Len(tbl) |-> IF same(tbl[i]) THEN StoredRow(tbl[i].id, row) ELSE tbl[i]]
        ELSE Append(tbl, StoredRow(id, row))

\* add_daily_entry: INSERT INTO daily_entries (...) VALUES (...)
InsertEntry(tbl, id, user_id, entry_data) ==
    Append(tbl, StoredRow(id, EntryRow(user_id, entry_data)))

\* A sequence without the elements of a set.
RECURSIVE Without(_, _)
Without(tbl, gone) ==
    IF tbl = <<>> THEN <<>>
    ELSE IF Head(tbl) \in gone THEN Without(Tail(tbl), gone)
    ELSE <<Head(tbl)>> \o Without(Tail(tbl), gone)

\* A variant of the delete that matches the id alone; the ownership check of
\* delete_entry must tell it apart.
DeleteMatch_IdOnly(tbl, user_id, entry_id) == {r \in Rows(tbl) : r.id = entry_id}

\* delete_entry: the rows of DELETE FROM daily_entries WHERE id = ? AND user_id = ?
DeleteMatch(tbl, user_id, entry_id) ==
    {r \in Rows(tbl) : r.id = entry_id /\ r.user_id = user_id}

\* clear_user_data: the rows of DELETE FROM daily_entries WHERE user_id = ?
ClearMatch(tbl, user_id) == {r \in Rows(tbl) : r.user_id = user_id}

\* The order of characters in dates, and the order SQLite gives two TEXT values
DateChars == "-0123456789"

RECURSIVE TextLeq(_, _)
TextLeq(a, b) ==
    IF a = "" THEN TRUE
    ELSE IF b = "" THEN FALSE
    ELSE IF Ch(a, 1) # Ch(b, 1) THEN Find(DateChars, Ch(a, 1)) < Find(DateChars, Ch(b, 1))
    ELSE TextLeq(SubSeq(a, 2, Len(a)), SubSeq(b, 2, Len(b)))

\* get_daily_entries(user_id, date): the rows selected; "if date" is false for
\* None and for the empty string
DailyEntries(tbl, user_id, date) ==
    IF date # PyNone /\ date # PyStr("")
    THEN {r \in Rows(tbl) : r.user_id = user_id /\ r.date = date.s}
    ELSE {r \in Rows(tbl) : r.user_id = user_id}

\* A variant of the range query without the owner in its WHERE clause; the
\* separation of users must tell it apart.
EntriesByDateRange_AnyUser(tbl, user_id, start_date, end_date) ==
    {r \in Rows(tbl) : TextLeq(start_date, r.date) /\ TextLeq(r.date, end_date)}

\* get_entries_by_date_range: WHERE user_id = ? AND date BETWEEN ? AND ?
EntriesByDateRange(tbl, user_id, start_date, end_date) ==
    {r \in Rows(tbl) :
        r.user_id = user_id /\ TextLeq(start_date, r.date) /\ TextLeq(r.date, end_date)}

\* The sum of two floats, exact for the values of the model (halves and whole
\* numbers far below 2^53).
DecAdd(a, b) ==
    LET e == IF a.e > b.e THEN a.e ELSE b.e
    IN  Normal(Dec(a.m * Pow10(e - a.e) + b.m * Pow10(e - b.e), e))

\* SUM(column) over the rows of a sequence, for a REAL and for an INTEGER column
RECURSIVE SumReal(_, _)
SumReal(tbl, column) ==
    IF tbl = <<>> THEN Dec(0, 0) ELSE DecAdd(Head(tbl)[column], SumReal(Tail(tbl), column))

RECURSIVE SumInt(_, _)
SumInt(tbl, column) ==
    IF tbl = <<>> THEN 0 ELSE Head(tbl)[column] + SumInt(Tail(tbl), column)

\* The rows of a table that are in a set, in the table's order
Among(tbl, rows) == SelectSeq(tbl, LAMBDA r : r \in rows)

\* The aggregates of one SELECT COUNT(*), SUM(...) over the rows chosen
Totals(chosen) ==
    [count |-> Len(chosen),
     total_calories |-> SumReal(chosen, "calories"),
     total_protein |-> SumReal(chosen, "protein"),
     total_fat |-> SumReal(chosen, "fat"),
     total_carbs |-> SumReal(chosen, "carbs"),
     total_water |-> SumInt(chosen, "water_ml"),
     total_exercise |-> SumInt(chosen, "exercise_min")]

\* SUM(column) as SQLite answers it: NULL over no row, else the sum
SqlSum(chosen, sum) == [null |-> chosen = <<>>, v |-> sum]

\* A variant of the defaults loop that leaves a NULL total as None; the zero
\* totals of a day without entries must tell it apart.
FillDefaults_KeepNull(total, default) == IF total.null THEN PyNone ELSE total.v

\* Lines 326-343: a value that is None is replaced by its default.
FillDefaults(total, default) == IF total.null THEN default ELSE total.v

\* get_daily_nutrition_summary(user_id, date): COUNT(*) and the SUMs WHERE
\* user_id = ? AND date = ?, each None replaced by the default 0
DailyNutritionSummary(tbl, user_id, date) ==
    LET chosen == Among(tbl, {r \in Rows(tbl) : r.user_id = user_id /\ r.date = date})
        t == Totals(chosen)
    IN  [food_count |-> t.count,
         total_calories |-> FillDefaults(SqlSum(chosen, t.total_calories), Dec(0, 0)),
         total_protein |-> FillDefaults(SqlSum(chosen, t.total_protein), Dec(0, 0)),
         total_fat |-> FillDefaults(SqlSum(chosen, t.total_fat), Dec(0, 0)),
         total_carbs |-> FillDefaults(SqlSum(chosen, t.total_carbs), Dec(0, 0)),
         total_water |-> FillDefaults(SqlSum(chosen, t.total_water), 0),
         total_exercise |-> FillDefaults(SqlSum(chosen, t.total_exercise), 0)]

\* The rows get_user_summary aggregates: WHERE user_id = ?, AND date >= ? if
\* start_date is truthy, AND date <= ? if end_date is truthy
SummaryRows(tbl, user_id, start_date, end_date) ==
    {r \in Rows(tbl) :
        /\ r.user_id = user_id
        /\ (start_date # PyNone /\ start_date # PyStr("")) => TextLeq(start_date.s, r.date)
        /\ (end_date # PyNone /\ end_date # PyStr("")) => TextLeq(r.date, end_date.s)}

\* x / n for a float x over the one or two dates of the model; halving is exact
DecOver(x, n) == IF n = 1 THEN x ELSE Normal(Dec(x.m * 5, x.e + 1))

\* get_user_summary(user_id, start_date, end_date): one row of aggregates for
\* each date (GROUP BY date), and the totals and averages computed from them
UserSummary(tbl, user_id, start_date, end_date) ==
    LET chosen == SummaryRows(tbl, user_id, start_date, end_date)
        dates == {r.date : r \in chosen}
        day(d) == Totals(Among(tbl, {r \in chosen : r.date = d}))
        rows == {[date |-> d] @@ day(d) : d \in dates}
        all == Totals(Among(tbl, chosen))
        n == Cardinality(dates)
    IN  [daily_summaries |-> rows,
         total_days |-> n,
         total_entries |-> all.count,
         avg_calories |-> IF n = 0 THEN Dec(0, 0) ELSE DecOver(all.total_calories, n),
         avg_water |-> IF n = 0 THEN Dec(0, 0) ELSE DecOver(Dec(all.total_water, 0), n),
         avg_exercise |-> IF n = 0 THEN Dec(0, 0) ELSE DecOver(Dec(all.total_exercise, 0), n)]

(* database.py: the users table *)

\* hash_password(password): the SHA-256 digest, as a name for it that differs
\* for different passwords
hash_password(password) == "sha256(" \o password \o ")"

\* The row INSERT INTO users (email, password_hash, name) creates, with the
\* schema's defaults; created_at is left out
UserRow(id, email, password_hash, name) ==
    [id |-> id, email |-> email, password_hash |-> password_hash, name |-> PyStr(name),
     weight |-> PyInt(65), height |-> PyInt(170), age |-> PyInt(25),
     activity_level |-> PyStr("medium"), goal |-> PyStr("maintain"), last_login |-> PyNone]

\* A variant of the UNIQUE constraint that never finds the email taken; the
\* uniqueness of emails must tell it apart.
EmailTaken_Never(tbl, email) == FALSE

\* email TEXT UNIQUE: the INSERT raises IntegrityError when a row has the email
EmailTaken(tbl, email) == \E u \in Rows(tbl) : u.email = email

\* allowed_fields of update_user_profile
AllowedFields == {"name", "weight", "height", "age", "activity_level", "goal"}

\* A variant of the UPDATE without its WHERE clause; the frame of
\* update_user_profile must tell it apart.
UpdateUsers_AllRows(tbl, user_id, kwargs) ==
    [i \in 1..Len(tbl) |->
        [f \in DOMAIN tbl[i] |->
            IF f \in AllowedFields \cap DOMAIN kwargs THEN kwargs[f] ELSE tbl[i][f]]]

\* UPDATE users SET <the allowed fields of kwargs> WHERE id = ?
UpdateUsers(tbl, user_id, kwargs) ==
    [i \in 1..Len(tbl) |->
        IF tbl[i].id = user_id
        THEN [f \in DOMAIN tbl[i] |->
                 IF f \in AllowedFields \cap DOMAIN kwargs THEN kwargs[f] ELSE tbl[i][f]]
        ELSE tbl[i]]

\* UPDATE users SET last_login = CURRENT_TIMESTAMP WHERE id = ?
TouchLogin(tbl, user_id) ==
    [i \in 1..Len(tbl) |->
        IF tbl[i].id = user_id THEN [tbl[i] EXCEPT !.last_login = PyStr("CURRENT_TIMESTAMP")]
        ELSE tbl[i]]

\* The columns authenticate_user and get_user_profile select
Profile(row) ==
    [id |-> row.id, email |-> row.email, name |-> row.name, weight |-> row.weight,
     height |-> row.height, age |-> row.age, activity_level |-> row.activity_level,
     goal |-> row.goal]

-----------------------------------------------------------------------------
(* The state and the inputs *)

VARIABLES
    nutrition_api,   \* the module's singleton: made, and the instance's api_key
    requested_key,   \* the api_key argument the singleton was constructed with
    pc,              \* where the call of analyze_food_nutrition stands
    caller,          \* "direct", or "app" for the manual-input save handler
    food_name,       \* the arguments of the call
    portion_size,
    app_input,       \* the save handler's user, water and exercise
    http_requests,   \* requests.post calls issued during the call
    response,        \* what the post returned
    text_stage,      \* what extract_nutrition_from_text ended with, once called
    outcome,         \* what the call of analyze_food_nutrition ended with
    clock,           \* datetime.now(); it advances with every call
    entries,         \* the rows of daily_entries
    pt_bundle,       \* the portion operations applied on their own: the inputs,
    pt_label,
    pt_food,
    pt_adjusted,     \* the outcome of adjust_for_portion,
    pt_fallback,     \* and of get_fallback_nutrition
    nx_input,        \* the number extractors applied on their own: the input,
    nx_db,           \* the outcome of database.extract_number,
    nx_api,          \* and of deepseek_api.extract_number
    call_log,        \* the calls that have returned: arguments, response, outcome
    last_id,         \* sqlite_sequence of daily_entries: the last id AUTOINCREMENT gave
    users,           \* the rows of users
    db_result,       \* the last call of a NutritionDatabase method and what it returned
    before,          \* history: daily_entries as that call found it
    created,         \* history: the row each successful insert created, by id
    removed,         \* history: the ids of the rows a successful delete removed
    registered,      \* history: the id and email of each profile create_user made
    wiped,           \* history: the profiles clear_database has deleted
    cl_model,        \* FoodImageClassifier.predict applied on its own: self.model,
    cl_image,        \* the image,
    cl_top_k,        \* top_k,
    cl_results,      \* and what predict returned
    session_state,   \* st.session_state: page, user, user_id, prediction_result, food_input
    script_run,      \* what the last run of the app.py script did
    multiple         \* the call of analyze_multiple_foods: its list, where its loop
                     \* stands, the resolutions it has made, and what it returned

vars ==
    <<nutrition_api, requested_key, pc, caller, food_name, portion_size, app_input,
      http_requests, response, text_stage, outcome, clock, entries,
      pt_bundle, pt_label, pt_food, pt_adjusted, pt_fallback, nx_input, nx_db, nx_api,
      call_log, last_id, users, db_result, before, created, removed, registered, wiped,
      cl_model, cl_image, cl_top_k, cl_results, session_state, script_run,
      multiple>>

callVars ==
    <<pc, caller, food_name, portion_size, app_input, http_requests, response, text_stage, outcome>>
ptVars == <<pt_bundle, pt_label, pt_food, pt_adjusted, pt_fallback>>
nxVars == <<nx_input, nx_db, nx_api>>
logVars == <<call_log>>
userHist == <<registered, wiped>>
dbVars == <<last_id, users, db_result, before, created, removed, userHist>>
clVars == <<cl_model, cl_image, cl_top_k, cl_results>>
stVars == <<session_state, script_run>>
uiVars == <<clVars, stVars, multiple>>

\* Calls of analyze_food_nutrition in one behaviour.
MaxCalls == 2

NoInstance == [made |-> FALSE, api_key |-> PyNone]
NoOutcome == [exc |-> "not called", val |-> EmptyDict]
NoInput == [user_id |-> 0, water |-> 0, exercise |-> 0]

KeyArguments == {PyNone, PyStr("sk-key-of-the-caller")}

Foods == {"nasi goreng", "ayam bakar", "Salad Buah", "es teh"}

Labels == {"small", "normal", "large", "kecil", "sedang", "besar",
           "Large", "BESAR", "Sedang", "jumbo", ""}

\* A size label, or the weight in grams app.py passes.
Portions == {PyStr("normal"), PyStr("large"), PyStr("Kecil"), PyStr("jumbo"), PyInt(100)}

UserIds == {1, 2}
AppFoods == {"nasi goreng"}
Grams == {100, 250}
Today == "2025-01-15"
Tomorrow == "2025-01-16"

\* Rows a call of add_daily_entry may insert in one behaviour.
MaxEntries == 2

NasiBundle ==
    [calories |-> PyStr("250 kcal"), protein |-> PyStr("8 g"), fat |-> PyStr("5 g"),
     carbs |-> PyStr("45 g")]
LargeBundle ==
    [calories |-> PyStr("625.5 kcal"), protein |-> PyStr("20 g"), fat |-> PyStr("12.5 g"),
     carbs |-> PyStr("112.5 g")]

\* The saves of the database on its own: the same food today for two users,
\* and a larger portion of it tomorrow
Saves ==
    {[user_id |-> 1, entry_data |-> [food |-> "nasi goreng", portion_grams |-> 100,
        nutrition |-> NasiBundle, water |-> 250, exercise |-> 0, date |-> Today]],
     [user_id |-> 2, entry_data |-> [food |-> "nasi goreng", portion_grams |-> 100,
        nutrition |-> NasiBundle, water |-> 250, exercise |-> 0, date |-> Today]],
     [user_id |-> 1, entry_data |-> [food |-> "nasi goreng", portion_grams |-> 250,
        nutrition |-> LargeBundle, water |-> 0, exercise |-> 30, date |-> Tomorrow]]}

EntryIds == 1..MaxEntries
ListDates == {PyNone, PyStr(Today), PyStr(Tomorrow)}
Dates == {Today, Tomorrow}
DateRanges == {<<Today, Tomorrow>>, <<Tomorrow, Tomorrow>>, <<Tomorrow, Today>>}
SummaryRanges == {<<PyNone, PyNone>>, <<PyStr(Tomorrow), PyNone>>, <<PyNone, PyStr(Today)>>}
Emails == {"ani@example.id"}
Passwords == {"rahasia", "salah"}
UpdateKwargs == {[weight |-> PyInt(70)], [email |-> PyStr("budi@example.id")]}

\* The registrations of the users on their own: two for one email, one for
\* another; and the edits of a profile: an allowed field among fields that are
\* not allowed, and no allowed field at all
Registrations ==
    {<<"ani@example.id", "rahasia", "Ani">>, <<"ani@example.id", "lain", "Ani Baru">>,
     <<"budi@example.id", "rahasia", "Budi">>}
ProfileEdits ==
    {[goal |-> PyStr("lose"), email |-> PyStr("cici@example.id"), id |-> PyInt(9)],
     [email |-> PyStr("cici@example.id"), password_hash |-> PyStr("")]}
UserSaves == {s \in Saves : s.user_id = 1 /\ s.entry_data.date = Today}

FullPayload ==
    "{\"food_name\": \"nasi goreng\", \"portion_size\": \"normal\", "
    \o "\"calories\": \"250 kcal\", \"protein\": \"8 g\", \"fat\": \"5 g\", "
    \o "\"carbs\": \"45 g\", \"fiber\": \"3 g\", \"sugar\": \"5 g\", "
    \o "\"sodium\": \"200 mg\", \"notes\": \"ok\", \"source\": \"deepseek_api\"}"

\* Payloads the remote service also sends inside a Markdown code fence; the
\* last one has a fence marker inside a string.
Payloads ==
    {FullPayload,
     "{\"calories\": \"120 kcal\", \"protein\": \"2.5 g\"}",
     "{\"calories\": \"100 kcal\", \"notes\": \"lihat " \o Fence \o "\"}"}

\* The payload between an opening marker with the json tag and a closing one,
\* and between two bare markers.
Fenced(payload) == FenceJson \o "\n" \o payload \o "\n" \o Fence
FencedBare(payload) == Fence \o "\n" \o payload \o "\n" \o Fence

Contents ==
    Payloads \cup {Fenced(p) : p \in Payloads} \cup {FencedBare(p) : p \in Payloads} \cup
    {"{\"calories\": \"90 kcal\", \"source\": \"usda\"}",
     "{\"calories\": 180, \"protein\": 7.5, \"source\": \"deepseek_api\"}",
     "{\"calories\": -50, \"protein\": \"-3 g\", \"source\": \"deepseek_api\"}",
     "42",
     "Kalori: 300 kcal, protein 12 g, lemak 5 g",
     "{\"calories\": \"250 kcal\", \"prot",
     ""}

Responses ==
    {NetworkError, HttpError(500), HttpError(401),
     HttpBody("invalid"), HttpBody("no_choices"), HttpBody("null_content")}
    \cup {Chat(c) : c \in Contents}

NoResponse == [exc |-> FALSE, status |-> 0, body |-> "", content |-> ""]


\* Arguments and responses of repeated calls on the singleton.
RepFoods == {"nasi goreng"}
RepPortions == {PyStr("normal"), PyStr("large"), PyInt(100)}
RepResponses == {NetworkError, HttpError(500), Chat(FullPayload), Chat(Fenced(FullPayload)),
                 Chat("")}

\* Bundles for the portion operations: each key absent, or one of its values.
\* A quantity is the decimal m / 10^e with its unit.
Quantity(m, e, u) == [m |-> m, e |-> e, u |-> u]

\* "<number> <unit>"
QuantityText(q) ==
    (IF q.e = 0 THEN IntToStr(q.m)
     ELSE IntToStr(q.m \div Pow10(q.e)) \o "." \o IntToStr(q.m % Pow10(q.e)))
    \o " " \o q.u

Quantities ==
    {Quantity(200, 0, "kcal"), Quantity(0, 0, "kcal"), Quantity(100, 0, "kcal/100g"),
     Quantity(10, 0, "g"), Quantity(24, 1, "g"), Quantity(5, 1, "g"), Quantity(45, 0, "g")}

PtFoods == {"ayam bakar"}

\* Inputs of the number extractors: quantity strings, strings with no digit,
\* with several numbers or several dots, numbers, booleans and None.
NumberInputs ==
    {PyStr(x) : x \in {"250 kcal", "", "12.5 g", "1.5.7", ".", "-5 g", "abc", "7.", ".5",
                       "a1b2", "3 g 4", "1200kcal", "0.50", "2 g (2%)", "0", "10.0 g",
                       "kcal 90", "1,200 kcal", "  8 g", "5..5"}}
    \cup {PyInt(42), PyInt(0 - 3), PyNum(25, 1), PyInt(0), PyBool(TRUE), PyBool(FALSE), PyNone,
          PyBigInt}

NoNumber == [exc |-> "not called", val |-> [m |-> 0, e |-> 0]]

\* Food names for get_fallback_nutrition on its own: names with words of one
\* set, of several sets, of none, in either case, and a word inside a word.
FallbackFoods ==
    {"nasi goreng", "ayam goreng", "Ayam Bakar", "salad buah", "tahu goreng", "es teh",
     "sayur ikan", "Roti", "bakmie", "KRISPI", "fried rice", "telur"}

Absent == [t |-> "absent", s |-> "", n |-> 0, e |-> 0]

PtChoices ==
    [calories : {Absent, PyStr(QuantityText(Quantity(200, 0, "kcal"))),
                 PyStr(QuantityText(Quantity(0, 0, "kcal"))),
                 PyStr(QuantityText(Quantity(100, 0, "kcal/100g")))},
     protein : {Absent, PyStr(QuantityText(Quantity(10, 0, "g"))),
                PyStr(QuantityText(Quantity(24, 1, "g"))),
                PyStr(QuantityText(Quantity(5, 1, "g")))},
     fat : {Absent, PyStr("sedikit"), PyInt(5)},
     carbs : {Absent, PyStr(QuantityText(Quantity(45, 0, "g")))},
     sodium : {Absent, PyStr("200 mg")},
     notes : {Absent, PyStr("1 porsi")}]

BundleOf(c) == [k \in {x \in DOMAIN c : c[x] # Absent} |-> c[k]]

PtBundles == {BundleOf(c) : c \in PtChoices}

-----------------------------------------------------------------------------
(* The operations *)

\* get_nutrition_api(api_key): the singleton is constructed on the first call
GetNutritionApi(api_key) ==
    /\ pc = "idle"
    /\ ~nutrition_api.made
    /\ nutrition_api' = [made |-> TRUE, api_key |-> NewApi(api_key).api_key]
    /\ requested_key' = api_key
    /\ UNCHANGED <<callVars, clock, entries, ptVars, nxVars, logVars, dbVars, uiVars>>

\* nutrition_api.analyze_food_nutrition(food, portion) is called
CallAnalyze(food, portion) ==
    /\ pc = "idle"
    /\ nutrition_api.made
    /\ clock < MaxCalls
    /\ pc' = "check"
    /\ caller' = "direct"
    /\ food_name' = food
    /\ portion_size' = portion
    /\ http_requests' = 0
    /\ clock' = clock + 1
    /\ UNCHANGED <<nutrition_api, requested_key, app_input, response, text_stage, outcome,
                   entries, ptVars, nxVars, logVars, dbVars, uiVars>>

\* home_page, manual input: the save button is pressed with a food name that
\* is not blank; get_nutrition_from_prediction calls analyze_food_nutrition
\* with the weight in grams
ManualSave(user_id, food, grams, water, exercise) ==
    /\ pc = "idle"
    /\ nutrition_api.made
    /\ clock < MaxCalls
    /\ Strip(food) # ""
    /\ pc' = "check"
    /\ caller' = "app"
    /\ food_name' = food
    /\ portion_size' = PyInt(grams)
    /\ app_input' = [user_id |-> user_id, water |-> water, exercise |-> exercise]
    /\ http_requests' = 0
    /\ clock' = clock + 1
    /\ UNCHANGED <<nutrition_api, requested_key, response, text_stage, outcome, entries, ptVars, nxVars, logVars, dbVars, uiVars>>

\* Lines 38-39: if not self.is_available(): return the fallback
CheckAvailable ==
    /\ pc = "check"
    /\ IF is_available(nutrition_api)
       THEN /\ pc' = "post"
            /\ UNCHANGED outcome
       ELSE /\ pc' = "done"
            /\ outcome' = get_fallback_nutrition(food_name, portion_size, clock)
    /\ UNCHANGED <<nutrition_api, requested_key, caller, food_name, portion_size, app_input,
                   http_requests, response, text_stage, clock, entries, ptVars, nxVars, logVars, dbVars, uiVars>>

\* A variant that posts once more after a network exception; the
\* single-request property must tell it apart.
HttpPost_RetryOnce(resp) ==
    /\ pc = "post"
    /\ http_requests' = http_requests + 1
    /\ response' = resp
    /\ pc' = IF resp.exc /\ http_requests = 0 THEN "post" ELSE "handle"
    /\ UNCHANGED <<nutrition_api, requested_key, caller, food_name, portion_size, app_input,
                   text_stage, outcome, clock, entries, ptVars, nxVars, logVars, dbVars, uiVars>>

\* Line 86: requests.post(...), answered as the remote service chooses
HttpPost(resp) ==
    /\ pc = "post"
    /\ http_requests' = http_requests + 1
    /\ response' = resp
    /\ pc' = "handle"
    /\ UNCHANGED <<nutrition_api, requested_key, caller, food_name, portion_size, app_input,
                   text_stage, outcome, clock, entries, ptVars, nxVars, logVars, dbVars, uiVars>>

\* Lines 88-117: the response is turned into what the call returns or raises
HandleResponse ==
    /\ pc = "handle"
    /\ outcome' = AfterPost(response, food_name, portion_size, clock)
    /\ text_stage' = IF DecodeFails(response)
                     THEN extract_nutrition_from_text(CleanContent(response), food_name,
                                                      portion_size, clock)
                     ELSE NoOutcome
    /\ pc' = "done"
    /\ UNCHANGED <<nutrition_api, requested_key, caller, food_name, portion_size, app_input,
                   http_requests, response, clock, entries, ptVars, nxVars, logVars, dbVars, uiVars>>

ResetCall ==
    /\ pc' = "idle"
    /\ caller' = ""
    /\ food_name' = ""
    /\ portion_size' = PyNone
    /\ app_input' = NoInput
    /\ http_requests' = 0
    /\ response' = NoResponse
    /\ text_stage' = NoOutcome
    /\ outcome' = NoOutcome

\* The direct caller has its bundle or its exception.
ReturnDirect ==
    /\ pc = "done"
    /\ caller = "direct"
    /\ ResetCall
    /\ UNCHANGED <<nutrition_api, requested_key, clock, entries, ptVars, nxVars, logVars, dbVars, uiVars>>

\* An outcome without its analyzed_at timestamp.
SansTime(o) == [exc |-> o.exc, val |-> DictWithout(o.val, "analyzed_at")]

\* The direct caller has its bundle or its exception, and the call is logged.
ReturnLogged ==
    /\ pc = "done"
    /\ caller = "direct"
    /\ call_log' = call_log \cup {[kind |-> "analyze", food |-> food_name,
                                    portion |-> portion_size, response |-> response,
                                    outcome |-> SansTime(outcome)]}
    /\ ResetCall
    /\ UNCHANGED <<nutrition_api, requested_key, clock, entries, ptVars, nxVars, dbVars, uiVars>>

\* nutrition_api.get_fallback_nutrition(food, portion) is called on the
\* singleton and returns or raises; the call is logged.
FallbackLogged(food, portion) ==
    /\ pc = "idle"
    /\ nutrition_api.made
    /\ clock < MaxCalls
    /\ clock' = clock + 1
    /\ call_log' = call_log \cup {[kind |-> "fallback", food |-> food,
                                    portion |-> portion, response |-> NoResponse,
                                    outcome |-> SansTime(get_fallback_nutrition(food, portion,
                                                                                clock))]}
    /\ UNCHANGED <<nutrition_api, requested_key, callVars, entries, ptVars, nxVars, dbVars, uiVars>>

\* What the last call of a NutritionDatabase method was and returned; `failed`
\* says that the datastore raised and the method's except branch answered.
DbResult(op, user_id, arg, failed, value) ==
    [op |-> op, user_id |-> user_id, arg |-> arg, failed |-> failed, value |-> value]

NoResult == DbResult("", 0, <<>>, FALSE, FALSE)

\* db.add_daily_entry(user_id, entry_data): the row is inserted under the next
\* id and True is returned, unless the datastore raises (db_error), which the
\* except branch answers with False.
add_daily_entry(user_id, entry_data, db_error) ==
    /\ before' = entries
    /\ IF db_error
       THEN /\ db_result' = DbResult("add_daily_entry", user_id, <<>>, TRUE, FALSE)
            /\ UNCHANGED <<entries, last_id, created, removed>>
       ELSE /\ entries' = InsertEntry(entries, last_id + 1, user_id, entry_data)
            /\ last_id' = last_id + 1
            /\ created' = Append(created, StoredRow(last_id + 1, EntryRow(user_id, entry_data)))
            /\ db_result' = DbResult("add_daily_entry", user_id, <<>>, FALSE, TRUE)
            /\ UNCHANGED removed

\* A variant of the save handler that does not wait for the call of
\* analyze_food_nutrition to end before it stores the entry; the order of
\* resolution and persistence must tell it apart.
ReturnToApp_BeforeReturn(db_error) ==
    /\ pc \in {"post", "done"}
    /\ caller = "app"
    /\ LET nutrition == get_nutrition_from_prediction(outcome, portion_size.n)
           entry_data == [food |-> food_name, portion_grams |-> portion_size.n,
                          nutrition |-> nutrition, water |-> app_input.water,
                          exercise |-> app_input.exercise, date |-> Today]
       IN  add_daily_entry(app_input.user_id, entry_data, db_error)
    /\ ResetCall
    /\ UNCHANGED <<nutrition_api, requested_key, clock, ptVars, nxVars, logVars, users, userHist, uiVars>>

\* The save handler goes on: get_nutrition_from_prediction returns the bundle
\* or its own estimate, and db.add_daily_entry stores the entry, unless the
\* datastore raises (db_error), which add_daily_entry answers with False.
ReturnToApp(db_error) ==
    /\ pc = "done"
    /\ caller = "app"
    /\ LET nutrition == get_nutrition_from_prediction(outcome, portion_size.n)
           entry_data == [food |-> food_name, portion_grams |-> portion_size.n,
                          nutrition |-> nutrition, water |-> app_input.water,
                          exercise |-> app_input.exercise, date |-> Today]
       IN  add_daily_entry(app_input.user_id, entry_data, db_error)
    /\ ResetCall
    /\ UNCHANGED <<nutrition_api, requested_key, clock, ptVars, nxVars, logVars, users, userHist, uiVars>>

\* What a call of a NutritionDatabase method leaves alone outside the database
appVars == <<nutrition_api, requested_key, callVars, clock, ptVars, nxVars, logVars>>

\* db.add_daily_entry(user_id, entry_data) called on its own
AddDailyEntry(user_id, entry_data, db_error) ==
    /\ last_id < MaxEntries
    /\ add_daily_entry(user_id, entry_data, db_error)
    /\ UNCHANGED <<appVars, uiVars, users, userHist>>

\* A variant of delete_entry whose DELETE is committed before the datastore
\* raises: False is returned and the rows are gone; the unchanged database on
\* datastore errors must tell it apart.
DeleteEntry_DespiteError(user_id, entry_id, db_error) ==
    /\ before' = entries
    /\ LET match == DeleteMatch(entries, user_id, entry_id)
       IN  /\ entries' = Without(entries, match)
           /\ removed' = removed \cup {r.id : r \in match}
           /\ db_result' = IF db_error
                           THEN DbResult("delete_entry", user_id, <<entry_id>>, TRUE, FALSE)
                           ELSE DbResult("delete_entry", user_id, <<entry_id>>, FALSE,
                                         match # {})
    /\ UNCHANGED <<appVars, uiVars, last_id, users, created, userHist>>

\* db.delete_entry(user_id, entry_id): the rows with that id and that owner are
\* deleted and rowcount > 0 is returned; the except branch returns False.
DeleteEntry(user_id, entry_id, db_error) ==
    /\ before' = entries
    /\ IF db_error
       THEN /\ db_result' = DbResult("delete_entry", user_id, <<entry_id>>, TRUE, FALSE)
            /\ UNCHANGED <<entries, removed>>
       ELSE LET match == DeleteMatch(entries, user_id, entry_id)
            IN  /\ entries' = Without(entries, match)
                /\ removed' = removed \cup {r.id : r \in match}
                /\ db_result' = DbResult("delete_entry", user_id, <<entry_id>>, FALSE,
                                         match # {})
    /\ UNCHANGED <<appVars, uiVars, last_id, users, created, userHist>>

\* A variant of clear_user_data that deletes the user's profile with the
\* user's entries; the lifetime of profiles must tell it apart.
ClearUserData_WithProfile(user_id, db_error) ==
    /\ before' = entries
    /\ IF db_error
       THEN /\ db_result' = DbResult("clear_user_data", user_id, <<>>, TRUE, FALSE)
            /\ UNCHANGED <<entries, removed, users>>
       ELSE LET match == ClearMatch(entries, user_id)
            IN  /\ entries' = Without(entries, match)
                /\ removed' = removed \cup {r.id : r \in match}
                /\ users' = SelectSeq(users, LAMBDA u : u.id # user_id)
                /\ db_result' = DbResult("clear_user_data", user_id, <<>>, FALSE, TRUE)
    /\ UNCHANGED <<appVars, uiVars, last_id, created, userHist>>

\* db.clear_user_data(user_id): the user's rows are deleted and True is
\* returned; the except branch returns False.
ClearUserData(user_id, db_error) ==
    /\ before' = entries
    /\ IF db_error
       THEN /\ db_result' = DbResult("clear_user_data", user_id, <<>>, TRUE, FALSE)
            /\ UNCHANGED <<entries, removed>>
       ELSE LET match == ClearMatch(entries, user_id)
            IN  /\ entries' = Without(entries, match)
                /\ removed' = removed \cup {r.id : r \in match}
                /\ db_result' = DbResult("clear_user_data", user_id, <<>>, FALSE, TRUE)
    /\ UNCHANGED <<appVars, uiVars, last_id, users, created, userHist>>

\* A method that only reads daily_entries has returned `value`, or `empty` from
\* its except branch.
ReadEntries(op, user_id, arg, db_error, value, empty) ==
    /\ before' = entries
    /\ db_result' = IF db_error THEN DbResult(op, user_id, arg, TRUE, empty)
                    ELSE DbResult(op, user_id, arg, FALSE, value)
    /\ UNCHANGED <<appVars, uiVars, entries, last_id, users, created, removed, userHist>>

\* db.get_daily_entries(user_id, date): each row selected, with its decoded
\* nutrition_data under 'nutrition'; the order of the list is left out.
GetDailyEntries(user_id, date, db_error) ==
    ReadEntries("get_daily_entries", user_id, <<date>>, db_error,
                {[nutrition |-> r.nutrition_data] @@ r :
                    r \in DailyEntries(entries, user_id, date)}, {})

\* db.get_entries_by_date_range(user_id, start_date, end_date): the rows
\* selected; the order of the list is left out.
GetEntriesByDateRange(user_id, start_date, end_date, db_error) ==
    ReadEntries("get_entries_by_date_range", user_id, <<start_date, end_date>>, db_error,
                EntriesByDateRange(entries, user_id, start_date, end_date), {})

\* Lines 355-365: the summary the except branch returns
ZeroSummary ==
    [food_count |-> 0, total_calories |-> Dec(0, 0), total_protein |-> Dec(0, 0),
     total_fat |-> Dec(0, 0), total_carbs |-> Dec(0, 0), total_water |-> 0,
     total_exercise |-> 0]

\* db.get_daily_nutrition_summary(user_id, date)
GetDailyNutritionSummary(user_id, date, db_error) ==
    ReadEntries("get_daily_nutrition_summary", user_id, <<date>>, db_error,
                DailyNutritionSummary(entries, user_id, date), ZeroSummary)

\* db.get_user_summary(user_id, start_date, end_date); the except branch
\* returns the empty dict.
GetUserSummary(user_id, start_date, end_date, db_error) ==
    ReadEntries("get_user_summary", user_id, <<start_date, end_date>>, db_error,
                UserSummary(entries, user_id, start_date, end_date), EmptyDict)

\* db.create_user(email, password, name): the new row's id, or None when the
\* email is taken (IntegrityError) or the datastore raises.
CreateUser(email, password, name, db_error) ==
    /\ before' = entries
    /\ IF db_error \/ EmailTaken(users, email)
       THEN /\ db_result' = DbResult("create_user", 0, <<email>>, db_error, PyNone)
            /\ UNCHANGED <<users, registered>>
       ELSE /\ users' = Append(users, UserRow(Len(users) + 1, email, hash_password(password),
                                               name))
            /\ registered' = registered \cup {[id |-> Len(users) + 1, email |-> email]}
            /\ db_result' = DbResult("create_user", 0, <<email>>, FALSE,
                                     PyInt(Len(users) + 1))
    /\ UNCHANGED <<appVars, uiVars, entries, last_id, created, removed, wiped>>

\* db.authenticate_user(email, password): the profile of the user with that
\* email and password hash, whose last_login is set, or None.
AuthenticateUser(email, password, db_error) ==
    /\ before' = entries
    /\ LET found == {u \in Rows(users) :
                        u.email = email /\ u.password_hash = hash_password(password)}
       IN  IF db_error \/ found = {}
           THEN /\ db_result' = DbResult("authenticate_user", 0, <<email>>, db_error, PyNone)
                /\ UNCHANGED users
           ELSE LET user == CHOOSE u \in found : TRUE
                IN  /\ users' = TouchLogin(users, user.id)
                    /\ db_result' = DbResult("authenticate_user", 0, <<email>>, FALSE,
                                             Profile(user))
    /\ UNCHANGED <<appVars, uiVars, entries, last_id, created, removed, userHist>>

\* db.update_user_profile(user_id, **kwargs): False when kwargs names no
\* allowed field, else rowcount > 0 of the UPDATE.
UpdateUserProfile(user_id, kwargs, db_error) ==
    /\ before' = entries
    /\ IF db_error \/ AllowedFields \cap DOMAIN kwargs = {}
       THEN /\ db_result' = DbResult("update_user_profile", user_id, <<kwargs>>, db_error,
                                     FALSE)
            /\ UNCHANGED users
       ELSE /\ users' = UpdateUsers(users, user_id, kwargs)
            /\ db_result' = DbResult("update_user_profile", user_id, <<kwargs>>, FALSE,
                                     \E u \in Rows(users) : u.id = user_id)
    /\ UNCHANGED <<appVars, uiVars, entries, last_id, created, removed, userHist>>

\* db.get_user_profile(user_id): the profile of the row with that id, or None
GetUserProfile(user_id, db_error) ==
    /\ before' = entries
    /\ LET found == {u \in Rows(users) : u.id = user_id}
       IN  db_result' =
               IF db_error \/ found = {}
               THEN DbResult("get_user_profile", user_id, <<>>, db_error, PyNone)
               ELSE DbResult("get_user_profile", user_id, <<>>, FALSE,
                             Profile(CHOOSE u \in found : TRUE))
    /\ UNCHANGED <<appVars, uiVars, entries, last_id, users, created, removed, userHist>>

\* clear.py, clear_database(): the rows of every table are deleted and the
\* AUTOINCREMENT sequences are reset; True is returned, or False from the
\* except branch.  The histories of the entries start again with the tables.
ClearDatabase(db_error) ==
    /\ before' = entries
    /\ IF db_error
       THEN /\ db_result' = DbResult("clear_database", 0, <<>>, TRUE, FALSE)
            /\ UNCHANGED <<entries, last_id, users, created, removed, userHist>>
       ELSE /\ entries' = <<>>
            /\ users' = <<>>
            /\ last_id' = 0
            /\ created' = <<>>
            /\ removed' = {}
            /\ registered' = {}
            /\ wiped' = wiped \cup {p.email : p \in registered}
            /\ db_result' = DbResult("clear_database", 0, <<>>, FALSE, TRUE)
    /\ UNCHANGED <<appVars, uiVars>>

\* adjust_for_portion(bundle, label) on its own
PtAdjust ==
    /\ pt_adjusted = NoOutcome
    /\ pt_adjusted' = adjust_for_portion(pt_bundle, pt_label)
    /\ UNCHANGED <<nutrition_api, requested_key, callVars, clock, entries,
                   pt_bundle, pt_label, pt_food, pt_fallback, nxVars, logVars, dbVars, uiVars>>

\* database.extract_number(val) on its own
NxDatabase ==
    /\ nx_db = NoNumber
    /\ nx_db' = IF nx_input = PyBigInt THEN [exc |-> "OverflowError", val |-> Dec(0, 0)]
                ELSE [exc |-> "", val |-> db_extract_number(nx_input)]
    /\ UNCHANGED <<nutrition_api, requested_key, callVars, clock, entries, ptVars,
                   nx_input, nx_api, logVars, dbVars, uiVars>>

\* deepseek_api.extract_number(value) on its own
NxResolver ==
    /\ nx_api = NoNumber
    /\ nx_api' = IF nx_input = PyBigInt THEN [exc |-> "OverflowError", val |-> Dec(0, 0)]
                 ELSE [exc |-> "", val |-> api_extract_number(nx_input)]
    /\ UNCHANGED <<nutrition_api, requested_key, callVars, clock, entries, ptVars,
                   nx_input, nx_db, logVars, dbVars, uiVars>>

\* get_fallback_nutrition(food, label) on its own
PtFallback ==
    /\ pt_fallback = NoOutcome
    /\ pt_fallback' = get_fallback_nutrition(pt_food, pt_label, clock)
    /\ UNCHANGED <<nutrition_api, requested_key, callVars, clock, entries,
                   pt_bundle, pt_label, pt_food, pt_adjusted, nxVars, logVars, dbVars, uiVars>>

-----------------------------------------------------------------------------
(* FoodImageClassifier.predict (image_classifier.py) *)

\* Confidences are written in hundredths: 70 is the float 0.7.
\* self.class_names, as load_class_names read it from a file of two lines
ClassNames == <<"nasi putih", "nasi goreng">>

\* predict has not been called.
NoPrediction == << <<"not called", 0>> >>

\* The orders np.argsort(predictions) can give: the permutations of the indices
\* along which the scores do not decrease (the order of equal scores is the
\* sort's choice).
Argsorts(predictions) ==
    LET n == Len(predictions)
    IN  {o \in [1..n -> 1..n] :
            /\ \A i, j \in 1..n : i # j => o[i] # o[j]
            /\ \A i \in 1..(n - 1) : predictions[o[i]] <= predictions[o[i + 1]]}

\* np.argsort(predictions)[-top_k:][::-1]: the last top_k indices of the order,
\* the last one first.
TopIndices(order, top_k) ==
    [i \in 1..(IF top_k < Len(order) THEN top_k ELSE Len(order)) |->
        order[Len(order) + 1 - i]]

\* fallback_prediction(image): a guess from the average colour of the image;
\* ("makanan", 0.5) for an image without three channels, for a colour no rule
\* matches, and from the except branch when the image cannot be read.
fallback_prediction(image) ==
    LET r == image.r
        g == image.g
        b == image.b
    IN  IF image.kind # "rgb" THEN << <<"makanan", 50>> >>
        ELSE IF r > 180 /\ g > 160 /\ b < 140
            THEN << <<"nasi goreng", 70>>, <<"ayam goreng", 60>> >>
        ELSE IF 100 < r /\ r < 180 /\ 80 < g /\ g < 160 /\ b < 100
            THEN << <<"ayam bakar", 70>>, <<"rendang", 60>> >>
        ELSE IF r > g + 40 /\ r > b + 40
            THEN << <<"sate ayam", 70>>, <<"bakso", 60>> >>
        ELSE IF g > r + 30 /\ g > b + 30
            THEN << <<"sayuran", 80>>, <<"salad", 70>> >>
        ELSE IF r > 200 /\ g > 200 /\ b > 200
            THEN << <<"nasi putih", 80>>, <<"tahu", 70>> >>
        ELSE << <<"makanan", 50>> >>

\* The label of a class index (counted from 1 here, from 0 in the code):
\* its class name, or "class_<idx>" beyond the names.
ClassLabel(idx) ==
    IF idx <= Len(ClassNames) THEN ClassNames[idx] ELSE "class_" \o IntToStr(idx - 1)

\* predict(image, top_k) with self.model = model and np.argsort giving `order`:
\* the fallback when no model is loaded, when preprocessing or the model raises,
\* and when no score is left above 0.1; else the top_k best scores above 0.1,
\* best first.
predict(model, image, top_k, order) ==
    IF model.kind = "none" THEN fallback_prediction(image)
    ELSE IF model.kind = "raises" \/ image.kind = "unreadable" THEN fallback_prediction(image)
    ELSE LET top_indices == TopIndices(order, top_k)
             results == [i \in DOMAIN top_indices |->
                            <<ClassLabel(top_indices[i]), model.predictions[top_indices[i]]>>]
             kept == SelectSeq(results, LAMBDA pair : pair[2] > 10)
         IN  IF kept = <<>> THEN fallback_prediction(image) ELSE kept

\* The classifiers of the check: none loaded, one whose predict raises, and
\* one for each vector of three softmax scores drawn from Scores.
MaxTopK == 3
Scores == {5, 10, 30, 60}
Models ==
    {[kind |-> "none", predictions |-> <<>>], [kind |-> "raises", predictions |-> <<>>]}
    \cup {[kind |-> "scores", predictions |-> <<a, b, c>>] : a, b, c \in Scores}

\* The images: one for each colour rule, a grey one, a two-dimensional one and
\* a path that cannot be opened.
Images ==
    {[kind |-> "rgb", r |-> 220, g |-> 190, b |-> 90],
     [kind |-> "rgb", r |-> 150, g |-> 110, b |-> 60],
     [kind |-> "rgb", r |-> 200, g |-> 90, b |-> 110],
     [kind |-> "rgb", r |-> 80, g |-> 170, b |-> 90],
     [kind |-> "rgb", r |-> 240, g |-> 240, b |-> 240],
     [kind |-> "rgb", r |-> 120, g |-> 120, b |-> 120],
     [kind |-> "grey", r |-> 120, g |-> 120, b |-> 120],
     [kind |-> "unreadable", r |-> 0, g |-> 0, b |-> 0]}

\* classifier.predict(image, top_k) on its own
Predict ==
    /\ cl_results = NoPrediction
    /\ \E order \in Argsorts(cl_model.predictions) :
          cl_results' = predict(cl_model, cl_image, cl_top_k, order)
    /\ UNCHANGED <<appVars, entries, dbVars, cl_model, cl_image, cl_top_k, stVars, multiple>>

-----------------------------------------------------------------------------
(* app.py: the session and the runs of the script.  Streamlit runs the whole  *)
(* script once for each widget event and once after each st.rerun(); a button *)
(* returns True only in the run its own click triggered.  The runs follow the *)
(* sidebar, the router, login_page and, of home_page, the profile check, the  *)
(* logout button and the image-analysis tab; the manual tab is ManualSave.    *)

Pages == {"home", "analysis", "history", "stats", "profile"}

\* init_session_state(): the defaults of a new session; None is <<>> for
\* prediction_result, which the script only tests for truth
NewSession ==
    [page |-> "login", user |-> PyNone, user_id |-> PyNone,
     prediction_result |-> <<>>, food_input |-> ""]

\* What a run of the script did: the event that triggered it, whether it
\* ended in st.rerun(), the handler the router called ("" when the run ended
\* in the sidebar), the buttons it rendered, the bundle the image tab showed,
\* and whether add_daily_entry was called; `user_none` is whether session user
\* was None when the run began.
Run(event, rerun, handler, buttons, nutrition, saved) ==
    [event |-> event, rerun |-> rerun, handler |-> handler, user_none |-> TRUE,
     buttons |-> buttons, nutrition |-> nutrition, saved |-> saved]

\* The session is new and the script has not run yet.
NoRun == Run("open", TRUE, "", {}, EmptyDict, FALSE)

\* A variant of logout that leaves user_id as it is; the agreement of user and
\* user_id must tell it apart.
logout_KeepsUserId(session) == [session EXCEPT !.user = PyNone, !.page = "login"]

\* logout(): user and user_id are set to None and page to "login" (st.rerun()
\* follows)
logout(session) ==
    [session EXCEPT !.user = PyNone, !.user_id = PyNone, !.page = "login"]

\* The buttons of the sidebar when a user is logged in
SidebarButtons == {"nav", "side_logout"}

\* login_page(): the login button calls authenticate_user, whose answer is
\* `auth`; a user found is stored in the session with the user's id, page
\* becomes "home" and the script reruns.
login_page(session, event, auth) ==
    IF event = "login" /\ auth # PyNone
    THEN [session |-> [session EXCEPT !.user = auth, !.user_id = PyInt(auth.id),
                                      !.page = "home"],
          run |-> Run(event, TRUE, "login", {}, EmptyDict, FALSE)]
    ELSE [session |-> session,
          run |-> Run(event, FALSE, "login", {"login"}, EmptyDict, FALSE)]

\* home_page(): logout when get_user_profile gave no profile or the logout
\* button was pressed; the image button stores the predictions and reruns; with
\* predictions in the session the nutrition button is rendered, and the save
\* button inside the branch the nutrition button guards.
home_page(session, event, arg, profile, analysis) ==
    IF profile = PyNone \/ event = "home_logout"
    THEN [session |-> logout(session),
          run |-> Run(event, TRUE, "home", {}, EmptyDict, FALSE)]
    ELSE IF event = "img_analyze_image"
    THEN [session |-> [session EXCEPT !.prediction_result = arg, !.food_input = arg[1][1]],
          run |-> Run(event, TRUE, "home", {}, EmptyDict, FALSE)]
    ELSE LET shown == session.prediction_result # <<>>
             analysed == shown /\ event = "img_analyze_nutrition"
             nutrition == IF analysed THEN get_nutrition_from_prediction(analysis, arg)
                          ELSE EmptyDict
             saved == analysed /\ event = "img_save"
         IN  [session |-> session,
              run |-> Run(event, saved, "home",
                          SidebarButtons \cup {"home_logout", "img_analyze_image"}
                              \cup (IF shown THEN {"img_analyze_nutrition"} ELSE {})
                              \cup (IF analysed THEN {"img_save"} ELSE {}),
                          nutrition, saved)]

\* A page handler other than home_page: the page is rendered; the profile
\* page has a logout button.
other_page(session, event, handler) ==
    IF handler = "profile" /\ event = "profile_logout"
    THEN [session |-> logout(session),
          run |-> Run(event, TRUE, handler, {}, EmptyDict, FALSE)]
    ELSE [session |-> session,
          run |-> Run(event, FALSE, handler,
                      SidebarButtons \cup (IF handler = "profile" THEN {"profile_logout"}
                                           ELSE {}),
                      EmptyDict, FALSE)]

\* The main router: login_page() when session user is None, else the handler
\* of the page, home_page for a page without handler.
main_router(session, event, arg, auth, profile, analysis) ==
    IF session.user = PyNone THEN login_page(session, event, auth)
    ELSE LET handler == IF session.page \in Pages THEN session.page ELSE "home"
         IN  IF handler = "home" THEN home_page(session, event, arg, profile, analysis)
             ELSE other_page(session, event, handler)

\* One run of the script: the sidebar's navigation and logout buttons, which
\* are there for a logged-in user and end the run in st.rerun(), then the
\* router.
script(session, event, arg, auth, profile, analysis) ==
    LET r == IF session.user # PyNone /\ event = "nav"
                 THEN [session |-> [session EXCEPT !.page = arg],
                       run |-> Run(event, TRUE, "", {}, EmptyDict, FALSE)]
             ELSE IF session.user # PyNone /\ event = "side_logout"
                 THEN [session |-> logout(session),
                       run |-> Run(event, TRUE, "", {}, EmptyDict, FALSE)]
             ELSE main_router(session, event, arg, auth, profile, analysis)
    IN  [session |-> r.session,
         run |-> [r.run EXCEPT !.user_none = (session.user = PyNone)]]

\* What get_user_profile(session user_id) answers: the profile, or None when
\* there is none or the datastore raises
SessionProfile(db_error) ==
    LET found == {u \in Rows(users) : PyInt(u.id) = session_state.user_id}
    IN  IF db_error \/ found = {} THEN PyNone ELSE Profile(CHOOSE u \in found : TRUE)

\* What analyze_food_nutrition ends with when get_nutrition_from_prediction
\* calls it with a weight in grams
AppAnalyses == {[exc |-> "AttributeError", val |-> EmptyDict]}

\* The predictions the image button can store: classifier.predict(image,
\* top_k=3) of a classifier without a model file
StoredPredictions ==
    {predict([kind |-> "none", predictions |-> <<>>], image, 3, <<>>) : image \in Images}

\* A run of the script in which the database is only read
ReadingRun(event, arg, db_error) ==
    /\ \E analysis \in AppAnalyses :
          LET r == script(session_state, event, arg, PyNone, SessionProfile(db_error),
                          analysis)
          IN  /\ session_state' = r.session
              /\ script_run' = r.run
              /\ IF r.run.saved
                 THEN /\ add_daily_entry(session_state.user_id.n,
                                         [food |-> session_state.food_input,
                                          portion_grams |-> arg,
                                          nutrition |-> r.run.nutrition, water |-> 500,
                                          exercise |-> 0, date |-> Today], FALSE)
                      /\ UNCHANGED <<users, userHist>>
                 ELSE UNCHANGED <<entries, dbVars>>
    /\ UNCHANGED <<appVars, clVars, multiple>>

\* The script runs without a widget event: the session opens, or st.rerun()
\* ended the run before.
Rerun(db_error) ==
    /\ script_run.rerun
    /\ ReadingRun("rerun", 0, db_error)

\* The login button is pressed with an email and a password.
LoginClick(email, password, db_error) ==
    /\ ~script_run.rerun
    /\ "login" \in script_run.buttons
    /\ before' = entries
    /\ LET found == {u \in Rows(users) :
                        u.email = email /\ u.password_hash = hash_password(password)}
           auth == IF db_error \/ found = {} THEN PyNone
                   ELSE Profile(CHOOSE u \in found : TRUE)
           r == script(session_state, "login", 0, auth, PyNone,
                       CHOOSE analysis \in AppAnalyses : TRUE)
       IN  /\ users' = IF auth = PyNone THEN users ELSE TouchLogin(users, auth.id)
           /\ db_result' = DbResult("authenticate_user", 0, <<email>>, db_error, auth)
           /\ session_state' = r.session
           /\ script_run' = r.run
    /\ UNCHANGED <<appVars, clVars, multiple, entries, last_id, created, removed, userHist>>

\* A navigation button of the sidebar is pressed.
NavClick(page) ==
    /\ ~script_run.rerun
    /\ "nav" \in script_run.buttons
    /\ ReadingRun("nav", page, FALSE)

\* A logout button is pressed: the sidebar's, home_page's or profile_page's.
LogoutClick(button) ==
    /\ ~script_run.rerun
    /\ button \in script_run.buttons
    /\ ReadingRun(button, 0, FALSE)

\* The image button is pressed on an uploaded image.
AnalyzeImageClick(predictions) ==
    /\ ~script_run.rerun
    /\ "img_analyze_image" \in script_run.buttons
    /\ ReadingRun("img_analyze_image", predictions, FALSE)

\* The nutrition button of the image tab is pressed.
AnalyzeNutritionClick(portion_grams) ==
    /\ ~script_run.rerun
    /\ "img_analyze_nutrition" \in script_run.buttons
    /\ ReadingRun("img_analyze_nutrition", portion_grams, FALSE)

\* The save button of the image tab is pressed.
SaveClick ==
    /\ ~script_run.rerun
    /\ "img_save" \in script_run.buttons
    /\ ReadingRun("img_save", 0, FALSE)

-----------------------------------------------------------------------------
(* deepseek_api.py: analyze_multiple_foods.  Each analyze_food_nutrition it   *)
(* calls runs through CheckAvailable, HttpPost and HandleResponse; the        *)
(* confidences are written in hundredths.                                     *)

\* A variant of the loop's test that also tries a confidence of exactly 0.3;
\* the choice of the prediction must tell it apart.
Reasonable_AtLeast(confidence) == confidence >= 30

\* if confidence > 0.3
Reasonable(confidence) == confidence > 30

\* The first prediction from position i on that the loop tries; 0 when the
\* loop ends without one
NextTried(predictions, i) ==
    LET later == {j \in i..Len(predictions) : Reasonable(predictions[j][2])}
    IN  IF later = {} THEN 0 ELSE CHOOSE j \in later : \A k \in later : j <= k

\* analyze_multiple_foods has not been called.
NoMultiple ==
    [stage |-> "idle", predictions |-> <<>>, index |-> 0, resolved |-> <<>>,
     result |-> NoOutcome]

\* self.analyze_food_nutrition(food_name) is called, with the default portion
\* "normal"
StartResolution(food) ==
    /\ pc' = "check"
    /\ caller' = "multiple"
    /\ food_name' = food
    /\ portion_size' = PyStr("normal")
    /\ app_input' = NoInput
    /\ http_requests' = 0
    /\ response' = NoResponse
    /\ text_stage' = NoOutcome
    /\ outcome' = NoOutcome
    /\ clock' = clock + 1

\* The loop goes to the first prediction from position i on with a reasonable
\* confidence and resolves it, or ends and resolves the first of the list.
TryFrom(predictions, i, resolved) ==
    LET j == NextTried(predictions, i)
    IN  /\ multiple' = [stage |-> IF j = 0 THEN "last" ELSE "loop",
                        predictions |-> predictions,
                        index |-> IF j = 0 THEN 1 ELSE j,
                        resolved |-> resolved, result |-> NoOutcome]
        /\ StartResolution(predictions[IF j = 0 THEN 1 ELSE j][1])

\* nutrition_api.analyze_multiple_foods(food_predictions) is called: the
\* fallback for "makanan" for an empty list, else the loop starts.
CallMultiple(predictions) ==
    /\ pc = "idle"
    /\ nutrition_api.made
    /\ clock < MaxCalls
    /\ IF predictions = <<>>
       THEN /\ multiple' = [stage |-> "done", predictions |-> predictions, index |-> 0,
                            resolved |-> <<>>,
                            result |-> get_fallback_nutrition("makanan", PyStr("normal"),
                                                              clock)]
            /\ UNCHANGED <<callVars, clock>>
       ELSE TryFrom(predictions, 1, <<>>)
    /\ UNCHANGED <<nutrition_api, requested_key, entries, ptVars, nxVars, logVars, dbVars,
                   clVars, stVars>>

\* The resolution has ended.  In the loop its bundle is returned with the
\* prediction's confidence under 'prediction_confidence', and an exception
\* makes the loop continue; after the loop the outcome is the call's.
ReturnToMultiple ==
    /\ pc = "done"
    /\ caller = "multiple"
    /\ LET resolved == Append(multiple.resolved,
                              [index |-> multiple.index, food |-> food_name,
                               outcome |-> outcome])
           confidence == multiple.predictions[multiple.index][2]
       IN  IF multiple.stage = "loop" /\ Raised(outcome)
           THEN TryFrom(multiple.predictions, multiple.index + 1, resolved)
           ELSE /\ multiple' =
                       [multiple EXCEPT
                           !.stage = "done",
                           !.resolved = resolved,
                           !.result =
                               IF multiple.stage = "loop"
                               THEN [exc |-> "",
                                     val |-> DictSet(outcome.val, "prediction_confidence",
                                                     PyNum(confidence, 2))]
                               ELSE outcome]
                /\ ResetCall
                /\ UNCHANGED clock
    /\ UNCHANGED <<nutrition_api, requested_key, entries, ptVars, nxVars, logVars, dbVars,
                   clVars, stVars>>

\* The lists of the check: up to MaxPredictions predictions, each a food with
\* a confidence below, at or above 0.3.
MaxPredictions == 2
PredictionPairs == {<<f, c>> : f \in {"nasi goreng", "es teh"}, c \in {20, 30, 70}}
PredictionLists == UNION {[1..n -> PredictionPairs] : n \in 0..MaxPredictions}

-----------------------------------------------------------------------------
(* The specifications *)

\* No extractor has been applied on its own.
InitNoNumber ==
    /\ nx_input = PyNone
    /\ nx_db = NoNumber
    /\ nx_api = NoNumber

\* The tables init_database creates are empty.
InitDb ==
    /\ entries = <<>>
    /\ last_id = 0
    /\ users = <<>>
    /\ db_result = NoResult
    /\ before = <<>>
    /\ created = <<>>
    /\ removed = {}
    /\ registered = {}
    /\ wiped = {}

\* predict has not been applied on its own.
InitNoPredict ==
    /\ cl_model = [kind |-> "none", predictions |-> <<>>]
    /\ cl_image = [kind |-> "unreadable", r |-> 0, g |-> 0, b |-> 0]
    /\ cl_top_k = 1
    /\ cl_results = NoPrediction

\* The session is new.
InitSession ==
    /\ session_state = NewSession
    /\ script_run = NoRun

InitUi == InitNoPredict /\ InitSession /\ multiple = NoMultiple

InitApp ==
    /\ call_log = {}
    /\ InitDb
    /\ nutrition_api = NoInstance
    /\ requested_key = PyNone
    /\ pc = "idle"
    /\ caller = ""
    /\ food_name = ""
    /\ portion_size = PyNone
    /\ app_input = NoInput
    /\ http_requests = 0
    /\ response = NoResponse
    /\ text_stage = NoOutcome
    /\ outcome = NoOutcome
    /\ clock = 0

Init ==
    /\ InitApp
    /\ InitUi
    /\ InitNoNumber
    /\ pt_bundle = EmptyDict
    /\ pt_label = PyNone
    /\ pt_food = ""
    /\ pt_adjusted = NoOutcome
    /\ pt_fallback = NoOutcome

Next ==
    \/ \E k \in KeyArguments : GetNutritionApi(k)
    \/ \E f \in Foods, p \in Portions : CallAnalyze(f, p)
    \/ \E u \in UserIds, f \in AppFoods, g \in Grams : ManualSave(u, f, g, 500, 0)
    \/ CheckAvailable
    \/ \E r \in Responses : HttpPost(r)
    \/ HandleResponse
    \/ ReturnDirect
    \/ \E e \in BOOLEAN : ReturnToApp(e)

Spec == Init /\ [][Next]_vars

\* Repeated calls on the singleton, each logged when it returns.
NextRepeat ==
    \/ \E k \in KeyArguments : GetNutritionApi(k)
    \/ \E f \in RepFoods, p \in RepPortions : CallAnalyze(f, p)
    \/ \E f \in RepFoods, p \in RepPortions : FallbackLogged(f, p)
    \/ CheckAvailable
    \/ \E r \in RepResponses : HttpPost(r)
    \/ HandleResponse
    \/ ReturnLogged

SpecRepeat == Init /\ [][NextRepeat]_vars

\* The database on its own: the methods of NutritionDatabase called in any
\* order, by any user, each call with or without a failure of the datastore.
NextDb ==
    \/ \E s \in Saves, x \in BOOLEAN : AddDailyEntry(s.user_id, s.entry_data, x)
    \/ \E u \in UserIds, i \in EntryIds, x \in BOOLEAN : DeleteEntry(u, i, x)
    \/ \E u \in UserIds, x \in BOOLEAN : ClearUserData(u, x)
    \/ \E u \in UserIds, d \in ListDates, x \in BOOLEAN : GetDailyEntries(u, d, x)
    \/ \E u \in UserIds, r \in DateRanges, x \in BOOLEAN :
          GetEntriesByDateRange(u, r[1], r[2], x)
    \/ \E u \in UserIds, d \in Dates, x \in BOOLEAN : GetDailyNutritionSummary(u, d, x)
    \/ \E u \in UserIds, r \in SummaryRanges, x \in BOOLEAN : GetUserSummary(u, r[1], r[2], x)
    \/ \E e \in Emails, x \in BOOLEAN : CreateUser(e, "rahasia", "Ani", x)
    \/ \E e \in Emails, p \in Passwords, x \in BOOLEAN : AuthenticateUser(e, p, x)
    \/ \E u \in UserIds, k \in UpdateKwargs, x \in BOOLEAN : UpdateUserProfile(u, k, x)

SpecDb == Init /\ [][NextDb]_vars

\* The users on their own: registration, login, profile reads and edits, the
\* deletion of a user's entries, and the script that empties the database.
NextUsers ==
    \/ \E r \in Registrations, x \in BOOLEAN : CreateUser(r[1], r[2], r[3], x)
    \/ \E r \in Registrations : AuthenticateUser(r[1], r[2], FALSE)
    \/ \E u \in UserIds, k \in ProfileEdits, x \in BOOLEAN : UpdateUserProfile(u, k, x)
    \/ \E u \in UserIds, x \in BOOLEAN : GetUserProfile(u, x)
    \/ \E s \in UserSaves : AddDailyEntry(s.user_id, s.entry_data, FALSE)
    \/ \E u \in UserIds : ClearUserData(u, FALSE)
    \/ \E x \in BOOLEAN : ClearDatabase(x)

SpecUsers == Init /\ [][NextUsers]_vars

\* The portion operations on every bundle, label and food of the bounded sets.
InitPortion ==
    /\ InitApp
    /\ InitUi
    /\ InitNoNumber
    /\ pt_bundle \in PtBundles
    /\ pt_label \in {PyStr(l) : l \in Labels} \cup {PyInt(100)}
    /\ pt_food \in PtFoods
    /\ pt_adjusted = NoOutcome
    /\ pt_fallback = NoOutcome

NextPortion == PtAdjust \/ PtFallback

SpecPortion == InitPortion /\ [][NextPortion]_vars

\* get_fallback_nutrition on every food name and label of the bounded sets.
InitFallback ==
    /\ InitApp
    /\ InitUi
    /\ InitNoNumber
    /\ pt_bundle = EmptyDict
    /\ pt_label \in {PyStr(l) : l \in Labels} \cup {PyInt(100)}
    /\ pt_food \in FallbackFoods
    /\ pt_adjusted = NoOutcome
    /\ pt_fallback = NoOutcome

NextFallback == PtFallback

SpecFallback == InitFallback /\ [][NextFallback]_vars

\* The two number extractors on every input of the bounded set.
InitNumber ==
    /\ InitApp
    /\ InitUi
    /\ pt_bundle = EmptyDict
    /\ pt_label = PyNone
    /\ pt_food = ""
    /\ pt_adjusted = NoOutcome
    /\ pt_fallback = NoOutcome
    /\ nx_input \in NumberInputs
    /\ nx_db = NoNumber
    /\ nx_api = NoNumber

NextNumber == NxDatabase \/ NxResolver

SpecNumber == InitNumber /\ [][NextNumber]_vars

\* One session of the application, with users registering beside it.
NextSession ==
    \/ \E r \in Registrations : CreateUser(r[1], r[2], r[3], FALSE)
    \/ \E x \in BOOLEAN : Rerun(x)
    \/ \E r \in Registrations, x \in BOOLEAN : LoginClick(r[1], r[2], x)
    \/ \E p \in Pages : NavClick(p)
    \/ \E b \in {"side_logout", "home_logout", "profile_logout"} : LogoutClick(b)
    \/ \E p \in StoredPredictions : AnalyzeImageClick(p)
    \/ \E g \in Grams : AnalyzeNutritionClick(g)
    \/ SaveClick

SpecSession == Init /\ [][NextSession]_vars

\* Calls of analyze_multiple_foods on the singleton, each resolution with any
\* answer of the remote service.
NextMultiple ==
    \/ \E k \in KeyArguments : GetNutritionApi(k)
    \/ \E p \in PredictionLists : CallMultiple(p)
    \/ CheckAvailable
    \/ \E r \in Responses : HttpPost(r)
    \/ HandleResponse
    \/ ReturnToMultiple

SpecMultiple == Init /\ [][NextMultiple]_vars

\* predict on every classifier, image and top_k of the bounded sets.
InitPredict ==
    /\ InitApp
    /\ InitNoNumber
    /\ pt_bundle = EmptyDict
    /\ pt_label = PyNone
    /\ pt_food = ""
    /\ pt_adjusted = NoOutcome
    /\ pt_fallback = NoOutcome
    /\ cl_model \in Models
    /\ cl_image \in Images
    /\ cl_top_k \in 1..MaxTopK
    /\ cl_results = NoPrediction
    /\ InitSession
    /\ multiple = NoMultiple

NextPredict == Predict

SpecPredict == InitPredict /\ [][NextPredict]_vars

-----------------------------------------------------------------------------
(* The properties of analyze_food_nutrition, under Spec *)

\* The call has ended and handed a bundle to its caller.
Returned == pc = "done" /\ outcome.exc = ""

\* C1: for every food name, every portion argument (a size label, or the
\* weight in grams app.py passes) and every behaviour of the remote service,
\* analyze_food_nutrition ends by returning a bundle and never raises an
\* exception to its caller.
C1_NeverRaises == pc = "done" => outcome.exc = ""

\* C2: when the remote service answers with status 200 and a content that
\* fails JSON decoding, analyze_food_nutrition returns the bundle of the text
\* extraction stage, whose source marks it as parsed text and not as a fallback
\* estimate.  (Stated for size labels, where the fallback itself does not
\* raise.)
C2_DecodeFailureGivesParsedText ==
    (pc = "done" /\ DecodeFails(response) /\ IsStr(portion_size)) =>
        /\ outcome.exc = ""
        /\ DictGet(outcome.val, "source", PyNone) = PyStr("text_extraction")

\* C3: extract_nutrition_from_text never raises: for every text, food name and
\* portion label it returns a bundle that holds each of calories, protein, fat,
\* carbs, fiber and sugar (matched, or the default).
C3_TextExtractionNeverRaises ==
    text_stage # NoOutcome =>
        /\ text_stage.exc = ""
        /\ \A i \in 1..Len(NutrientFields) : NutrientFields[i] \in DOMAIN text_stage.val

\* C4: when no credential for the remote service is configured (the singleton
\* was made without a key, as app.py makes it), analyze_food_nutrition issues
\* no HTTP request during the call and returns the fallback estimate.
C4_NoCredentialNoRequest ==
    (nutrition_api.made /\ requested_key = PyNone /\ pc # "idle") =>
        /\ http_requests = 0
        /\ Returned => DictGet(outcome.val, "source", PyNone) = PyStr("fallback_estimation")

\* Two outcomes that differ at most in the analyzed_at timestamp.
SameApartFromTime(a, b) ==
    /\ a.exc = b.exc
    /\ DictWithout(a.val, "analyzed_at") = DictWithout(b.val, "analyzed_at")

\* C5: when the HTTP call returns a status other than 200 or raises a network
\* or timeout exception, analyze_food_nutrition ends exactly as
\* get_fallback_nutrition(food_name, portion_size) does, apart from the
\* analyzed_at timestamp.
C5_FailureGivesFallback ==
    (pc = "done" /\ (response.exc \/ response.status # 200)) =>
        SameApartFromTime(outcome, get_fallback_nutrition(food_name, portion_size, 0))

\* C5, reached: a bundle came back after a status 500, and one after a network
\* exception.
C5_Witness ==
    /\ Returned
    /\ response.exc \/ response.status = 500
    /\ outcome.val.source = PyStr("fallback_estimation")
    /\ outcome.val.food_name = PyStr(food_name)

Provenance == {PyStr("deepseek_api"), PyStr("text_extraction"), PyStr("fallback_estimation")}

\* C6: every bundle analyze_food_nutrition returns, on every path, has a source
\* field, and the field is one of the three provenance values.
C6_SourceAlwaysSet ==
    Returned => "source" \in DOMAIN outcome.val /\ outcome.val.source \in Provenance

\* C7: in every bundle analyze_food_nutrition returns and in every entry
\* add_daily_entry stores, each of calories, protein, fat and carbs, read by the
\* number extractor, is greater than or equal to 0.
C7_NutrientsNotNegative ==
    /\ Returned =>
           \A k \in {"calories", "protein", "fat", "carbs"} :
               db_extract_number(DictGet(outcome.val, k, PyInt(0))).m >= 0
    /\ \A i \in 1..Len(entries) :
           /\ entries[i].calories.m >= 0
           /\ entries[i].protein.m >= 0
           /\ entries[i].fat.m >= 0
           /\ entries[i].carbs.m >= 0

-----------------------------------------------------------------------------
(* The properties of the portion operations, under SpecPortion *)

\* adjust_for_portion was applied to pt_bundle with a size label and returned.
Adjusted == pt_adjusted.exc = "" /\ IsStr(pt_label)

\* The factor the documentation gives a label written in lower case, in tenths.
LabelFactor(label) ==
    IF label \in {"small", "kecil"} THEN 7
    ELSE IF label \in {"large", "besar"} THEN 13
    ELSE 10

\* value is "<t/10 with one decimal> <unit>", t/10 a nearest one-decimal
\* neighbour of q times the factor (either neighbour of a halfway product).
IsScaled(value, q, factor, unit) ==
    \E t \in 0..(q.m * factor) :
        /\ 2 * (q.m * factor - t * Pow10(q.e)) <= Pow10(q.e)
        /\ 2 * (t * Pow10(q.e) - q.m * factor) <= Pow10(q.e)
        /\ value = PyStr(IntToStr(t \div 10) \o "." \o IntToStr(t % 10) \o " " \o unit)

\* The unit of q once every occurrence of the text of its number is taken out.
UnitWithoutNumber(q) == IF q = Quantity(100, 0, "kcal/100g") THEN "kcal/g" ELSE q.u

\* C8, as stated: for every known label (small, normal, large, kecil, sedang,
\* besar) and every nutrient field present as "<number> <unit>",
\* adjust_for_portion replaces the field by the number times the label's
\* factor, written with one decimal, followed by the same unit.
C8_EveryKnownLabelRewrites ==
    (Adjusted /\ pt_label.s \in {"small", "normal", "large", "kecil", "sedang", "besar"}) =>
        \A i \in 1..Len(NutrientFields), q \in Quantities :
            (/\ NutrientFields[i] \in DOMAIN pt_bundle
             /\ pt_bundle[NutrientFields[i]] = PyStr(QuantityText(q)))
            => IsScaled(pt_adjusted.val[NutrientFields[i]], q, LabelFactor(pt_label.s), q.u)

\* C8, amended: when adjust_for_portion returns, for the labels small, kecil,
\* large and besar every nutrient field present as "<number> <unit>" (the
\* number an unsigned decimal numeral) is replaced by the number times the
\* label's factor, rounded to one decimal, followed by the unit without any
\* occurrence of the number's text; for normal and sedang (factor 1.0) every
\* field is returned as it was, without a rewrite to one decimal.
C8_ScaledLabelsRewrite ==
    (Adjusted /\ pt_label.s \in {"small", "normal", "large", "kecil", "sedang", "besar"}) =>
        \A i \in 1..Len(NutrientFields), q \in Quantities :
            (/\ NutrientFields[i] \in DOMAIN pt_bundle
             /\ pt_bundle[NutrientFields[i]] = PyStr(QuantityText(q)))
            => IF pt_label.s \in {"normal", "sedang"}
               THEN pt_adjusted.val[NutrientFields[i]] = pt_bundle[NutrientFields[i]]
               ELSE IsScaled(pt_adjusted.val[NutrientFields[i]], q, LabelFactor(pt_label.s),
                             UnitWithoutNumber(q))

\* C8, reached: "200 kcal" with large gave "260.0 kcal", next to a protein
\* with a decimal.
C8_Witness ==
    /\ Adjusted
    /\ pt_label = PyStr("large")
    /\ "calories" \in DOMAIN pt_bundle /\ pt_bundle.calories = PyStr("200 kcal")
    /\ pt_adjusted.val.calories = PyStr("260.0 kcal")
    /\ "protein" \in DOMAIN pt_bundle /\ pt_bundle.protein = PyStr("2.4 g")

\* The factor the documentation gives each label of the model, in tenths,
\* whatever its case.
DocumentedFactor(label) ==
    IF label \in {"small", "kecil"} THEN 7
    ELSE IF label \in {"large", "besar", "Large", "BESAR"} THEN 13
    ELSE 10

\* C9: the size label is mapped to its factor whatever its case (small/kecil
\* 0.7, normal/sedang 1.0, large/besar 1.3), every other label string has the
\* factor 1.0 and is no error, in adjust_for_portion and in
\* get_fallback_nutrition alike, and both use the same factor for every label.
C9_SameFactorEveryLabel ==
    IsStr(pt_label) =>
        /\ AdjustFactor(pt_label.s) = DocumentedFactor(pt_label.s)
        /\ FallbackFactor(pt_label.s) = AdjustFactor(pt_label.s)
        /\ pt_fallback # NoOutcome =>
               /\ pt_fallback.exc = ""
               /\ pt_fallback.val.sodium =
                      PyStr(IntToStr(20 * DocumentedFactor(pt_label.s)) \o " mg")
        /\ pt_adjusted # NoOutcome =>
               /\ pt_adjusted.exc # "AttributeError"
               /\ (pt_adjusted.exc = "" /\ "carbs" \in DOMAIN pt_bundle) =>
                      pt_adjusted.val.carbs =
                          IF DocumentedFactor(pt_label.s) = 7 THEN PyStr("31.5 g")
                          ELSE IF DocumentedFactor(pt_label.s) = 13 THEN PyStr("58.5 g")
                          ELSE PyStr("45 g")

\* C9, reached: both operations were applied with a label in capitals.
C9_Witness ==
    /\ pt_label = PyStr("BESAR")
    /\ pt_fallback.exc = "" /\ pt_fallback.val.sodium = PyStr("260 mg")
    /\ pt_adjusted.exc = "" /\ "carbs" \in DOMAIN pt_bundle

\* C10: adjust_for_portion changes only nutrient fields that are present in its
\* input: it adds no key, and every other key keeps its value.
C10_OnlyPresentNutrientsChange ==
    pt_adjusted.exc = "" =>
        /\ DOMAIN pt_adjusted.val = DOMAIN pt_bundle
        /\ \A k \in DOMAIN pt_bundle :
               (\A i \in 1..Len(NutrientFields) : NutrientFields[i] # k)
               => pt_adjusted.val[k] = pt_bundle[k]

\* C10, reached: a scaling label changed the calories of a bundle that has a
\* sodium and a notes field and lacks protein.
C10_Witness ==
    /\ pt_adjusted.exc = ""
    /\ pt_label = PyStr("kecil")
    /\ DOMAIN pt_bundle = {"calories", "sodium", "notes"}
    /\ pt_adjusted.val.calories # pt_bundle.calories

-----------------------------------------------------------------------------
(* The properties of get_fallback_nutrition, under SpecFallback *)

\* get_fallback_nutrition was applied to pt_food with a size label and returned.
Estimated == pt_fallback.exc = "" /\ IsStr(pt_label)

\* The base the documentation gives each food name of FallbackFoods: the first
\* of grain, meat, vegetable, fried that has a word in the name, else generic.
DocumentedBase(food) ==
    IF food \in {"nasi goreng", "Roti", "bakmie", "fried rice"}
        THEN [calories |-> 250, protein |-> 8, fat |-> 5, carbs |-> 45]
    ELSE IF food \in {"ayam goreng", "Ayam Bakar", "sayur ikan"}
        THEN [calories |-> 200, protein |-> 25, fat |-> 10, carbs |-> 0]
    ELSE IF food \in {"salad buah"}
        THEN [calories |-> 80, protein |-> 3, fat |-> 1, carbs |-> 15]
    ELSE IF food \in {"tahu goreng", "KRISPI"}
        THEN [calories |-> 300, protein |-> 15, fat |-> 20, carbs |-> 20]
    ELSE [calories |-> 200, protein |-> 10, fat |-> 8, carbs |-> 25]

\* C11: get_fallback_nutrition picks the base by testing the lower-cased food
\* name against the keyword sets in the order grain, meat, vegetable, fried,
\* the first matching set winning ("nasi goreng" and "ayam goreng" get the
\* grain and the meat base, not the fried one), and a name that matches no set
\* gets the generic base.  Read off the estimate of an unscaled portion.
C11_FirstMatchingSetWins ==
    (Estimated /\ DocumentedFactor(pt_label.s) = 10) =>
        /\ pt_fallback.val.calories = PyStr(IntToStr(DocumentedBase(pt_food).calories) \o " kcal")
        /\ pt_fallback.val.protein = PyStr(IntToStr(DocumentedBase(pt_food).protein) \o " g")
        /\ pt_fallback.val.fat = PyStr(IntToStr(DocumentedBase(pt_food).fat) \o " g")
        /\ pt_fallback.val.carbs = PyStr(IntToStr(DocumentedBase(pt_food).carbs) \o " g")

\* C11, reached: a name with a meat word and a fried word got the meat base.
C11_Witness ==
    /\ Estimated
    /\ pt_food = "ayam goreng"
    /\ pt_label = PyStr("normal")
    /\ pt_fallback.val.calories = PyStr("200 kcal")
    /\ pt_fallback.val.protein = PyStr("25 g")

\* The seven numeric fields of the estimate: the base or constant, and the unit.
EstimateFields(food) ==
    {<<"calories", DocumentedBase(food).calories, "kcal">>,
     <<"protein", DocumentedBase(food).protein, "g">>,
     <<"fat", DocumentedBase(food).fat, "g">>,
     <<"carbs", DocumentedBase(food).carbs, "g">>,
     <<"fiber", 3, "g">>, <<"sugar", 5, "g">>, <<"sodium", 200, "mg">>}

\* C12, as stated: for every food name and portion label each numeric field of
\* the estimate equals its base value (the category base, or 3, 5, 200 for
\* fiber, sugar, sodium) multiplied by the portion factor.
C12_FieldIsBaseTimesFactor ==
    Estimated =>
        \A f \in EstimateFields(pt_food) :
            db_extract_number(pt_fallback.val[f[1]])
                = Normal(Dec(f[2] * DocumentedFactor(pt_label.s), 1))

\* C12, amended: each numeric field of the estimate is its base value times
\* the portion factor rounded to a whole number (a product halfway between two
\* whole numbers goes to one of the two), followed by its unit.
C12_FieldIsRoundedProduct ==
    Estimated =>
        \A f \in EstimateFields(pt_food) :
            \E t \in 0..(2 * f[2]) :
                /\ 2 * (f[2] * DocumentedFactor(pt_label.s) - 10 * t) <= 10
                /\ 2 * (10 * t - f[2] * DocumentedFactor(pt_label.s)) <= 10
                /\ pt_fallback.val[f[1]] = PyStr(IntToStr(t) \o " " \o f[3])

\* C12, reached: "ayam bakar" with small gave 140 kcal, and a protein of
\* 25 x 0.7 = 17.5 written as a whole number.
C12_Witness ==
    /\ Estimated
    /\ pt_food = "Ayam Bakar"
    /\ pt_label = PyStr("small")
    /\ pt_fallback.val.calories = PyStr("140 kcal")
    /\ pt_fallback.val.protein = PyStr("18 g")
    /\ pt_fallback.val.fiber = PyStr("2 g")

-----------------------------------------------------------------------------
(* Further properties of analyze_food_nutrition, under Spec *)

\* C13: for every valid JSON payload and portion label, the bundle
\* analyze_food_nutrition recovers from the payload inside Markdown code-fence
\* markers (with the json tag, or bare) is the bundle it recovers from the
\* payload alone, apart from analyzed_at; with a size label that bundle is the
\* decoded payload and not an estimate.
C13_FenceMakesNoDifference ==
    (pc = "done" /\ response.body = "chat") =>
        \A p \in Payloads :
            response.content \in {Fenced(p), FencedBare(p)} =>
                /\ SameApartFromTime(outcome,
                                     AfterPost(Chat(p), food_name, portion_size, clock))
                /\ IsStr(portion_size) =>
                       /\ outcome.exc = ""
                       /\ "calories" \in DOMAIN outcome.val
                       /\ DictGet(outcome.val, "source", PyNone) # PyStr("fallback_estimation")
                       /\ DOMAIN outcome.val = DOMAIN json_loads(p).val.d \cup {"analyzed_at"}

\* C13, reached: the full payload inside a fence with the json tag came back
\* decoded and scaled.
C13_Witness ==
    /\ Returned
    /\ response.content = Fenced(FullPayload)
    /\ portion_size = PyStr("large")
    /\ outcome.val.calories = PyStr("325.0 kcal")
    /\ outcome.val.source = PyStr("deepseek_api")

-----------------------------------------------------------------------------
(* The properties of the number extractors, under SpecNumber *)

\* C14: for every text input both extractors return the value of the first
\* maximal run of digits with at most one decimal point (0.0 when the text has
\* no digit), so database.extract_number and deepseek_api.extract_number
\* return the same value for every string.
C14_ExtractorsAgreeOnStrings ==
    (IsStr(nx_input) /\ nx_db.exc = "" /\ nx_api.exc = "") => nx_db.val = nx_api.val

\* C15: the number extractor never raises, whatever the input, and its result
\* is never negative.
C15_NeverRaisesNeverNegative ==
    /\ nx_db # NoNumber => nx_db.exc = "" /\ nx_db.val.m >= 0
    /\ nx_api # NoNumber => nx_api.exc = "" /\ nx_api.val.m >= 0

-----------------------------------------------------------------------------
(* The chain of one call, under Spec *)

\* The steps of the chain: availability check, remote call, response handling,
\* return; the check may go to the end directly.
LinearSteps ==
    {<<"idle", "check">>, <<"check", "post">>, <<"check", "done">>,
     <<"post", "handle">>, <<"handle", "done">>, <<"done", "idle">>}

\* C17: one call of analyze_food_nutrition issues at most one HTTP request:
\* the chain is linear, no step is retried and no earlier step is entered
\* again after a failure.
C17_OneRequestLinearChain ==
    [][/\ http_requests' <= 1
       /\ pc' # pc => <<pc, pc'>> \in LinearSteps
       /\ http_requests' > http_requests => pc = "post" /\ pc' = "handle"]_vars

\* C17, reached: the call ended on the fallback after a network exception,
\* with the one request it had issued.
C17_Witness ==
    /\ Returned
    /\ response.exc
    /\ http_requests = 1
    /\ outcome.val.source = PyStr("fallback_estimation")

-----------------------------------------------------------------------------
(* Repeated calls, under SpecRepeat *)

-----------------------------------------------------------------------------
(* The stored entries, under SpecDb *)

\* The entries that were added and have not been deleted since, by the history
Live == {created[i] : i \in (1..Len(created)) \ removed}

\* The last call was `op` and the datastore executed its statements.
Executed(op) == db_result.op = op /\ ~db_result.failed

\* The rows a listing returned, without the 'nutrition' key of get_daily_entries
Listed == {[k \in DOMAIN r \ {"nutrition"} |-> r[k]] : r \in db_result.value}

\* C18: when the datastore executes its statement (a datastore that raises is
\* C24's case), delete_entry(user_id, entry_id) removes the row and returns
\* true exactly when an entry with that id owned by that user exists; when
\* there is none, or it belongs to another user, it returns false and the
\* stored entries are unchanged.  A deleted entry never appears again: not in
\* the table, not in a listing, and not in the counts of a summary.
C18_DeleteExactlyOwned ==
    /\ Executed("delete_entry") =>
           LET owned == {r \in Rows(before) :
                            r.id = db_result.arg[1] /\ r.user_id = db_result.user_id}
           IN  /\ db_result.value = (owned # {})
               /\ Rows(entries) = Rows(before) \ owned
               /\ Len(entries) = Len(before) - Cardinality(owned)
               /\ owned = {} => entries = before
    /\ \A r \in Rows(entries) : r.id \notin removed
    /\ (Executed("get_daily_entries") \/ Executed("get_entries_by_date_range")) =>
           \A r \in db_result.value : r.id \notin removed
    /\ Executed("get_daily_nutrition_summary") =>
           db_result.value.food_count =
               Cardinality({r \in Live : /\ r.user_id = db_result.user_id
                                         /\ r.date = db_result.arg[1]})
    /\ Executed("get_user_summary") =>
           db_result.value.total_entries <=
               Cardinality({r \in Live : r.user_id = db_result.user_id})

\* C18, reached: a user deleted their own entry and got True, while the entry
\* of the other user, stored for the same food and date, is still there.
C18_Witness ==
    /\ Executed("delete_entry")
    /\ db_result.value
    /\ Len(before) = 2
    /\ Len(entries) = 1
    /\ entries[1].user_id # db_result.user_id
    /\ db_result.arg[1] \in removed

\* The live entries of a user, and those of them a pair of optional bounds on
\* the date lets through
LiveOf(user_id) == {r \in Live : r.user_id = user_id}

Within(rows, from, to) ==
    {r \in rows : /\ from \notin {PyNone, PyStr("")} => TextLeq(from.s, r.date)
                  /\ to \notin {PyNone, PyStr("")} => TextLeq(r.date, to.s)}

\* The aggregates of a set of live entries, summed in the order of creation
LiveTotals(rows) == Totals(Among(created, rows))

\* C19: after any sequence of the persistence operations by any users, what a
\* call for user A returns or aggregates (get_daily_entries,
\* get_entries_by_date_range, get_daily_nutrition_summary, get_user_summary,
\* each within the dates the call asks for, and when the datastore executes
\* the query) is exactly the entries added with user_id A and not deleted
\* since; and no operation called with A's id changes or deletes an entry of
\* another user.
C19_OnlyTheOwnersEntries ==
    LET A == db_result.user_id
        arg == db_result.arg
        value == db_result.value
    IN  /\ Executed("get_daily_entries") =>
               Listed = Within(LiveOf(A), arg[1], arg[1])
        /\ Executed("get_entries_by_date_range") =>
               value = Within(LiveOf(A), PyStr(arg[1]), PyStr(arg[2]))
        /\ Executed("get_daily_nutrition_summary") =>
               LET t == LiveTotals(Within(LiveOf(A), PyStr(arg[1]), PyStr(arg[1])))
               IN  /\ value.food_count = t.count
                   /\ [k \in DOMAIN value \ {"food_count"} |-> value[k]]
                          = [k \in DOMAIN t \ {"count"} |-> t[k]]
        /\ Executed("get_user_summary") =>
               LET rows == Within(LiveOf(A), arg[1], arg[2])
               IN  /\ value.total_entries = Cardinality(rows)
                   /\ value.total_days = Cardinality({r.date : r \in rows})
                   /\ value.daily_summaries =
                          {[date |-> d] @@ LiveTotals({r \in rows : r.date = d}) :
                              d \in {r.date : r \in rows}}
        /\ db_result.op \in {"add_daily_entry", "delete_entry", "clear_user_data",
                             "update_user_profile", "get_daily_entries",
                             "get_entries_by_date_range", "get_daily_nutrition_summary",
                             "get_user_summary"} =>
               SelectSeq(entries, LAMBDA r : r.user_id # A)
                   = SelectSeq(before, LAMBDA r : r.user_id # A)

\* C19, reached: both users have the same food stored for today, and the range
\* listing of one of them returned their own row alone.
C19_Witness ==
    /\ Executed("get_entries_by_date_range")
    /\ Cardinality(db_result.value) = 1
    /\ Len(entries) = 2
    /\ entries[1].user_id # entries[2].user_id
    /\ entries[1].date = entries[2].date
    /\ TextLeq(db_result.arg[1], entries[1].date)
    /\ TextLeq(entries[1].date, db_result.arg[2])

\* The columns of an entry that the user's save fixed
EntryColumns ==
    {"user_id", "date", "food_name", "portion", "calories", "protein", "fat", "carbs",
     "water_ml", "exercise_min", "nutrition_data"}

\* C20: a stored food entry is never modified after add_daily_entry created
\* it: across any sequence of operations (add, list, summarise, authenticate,
\* update profile, delete, with or without a datastore failure), every entry
\* that still exists has the user_id, date, food name, portion, nutrient
\* values, water and exercise it was created with, and every entry that a call
\* found and left in the table is left as it was.
C20_StoredEntriesNeverChange ==
    /\ \A r \in Rows(entries) :
           /\ r.id \in 1..Len(created)
           /\ \A c \in EntryColumns : r[c] = created[r.id][c]
    /\ \A r \in Rows(entries), b \in Rows(before) : r.id = b.id => r = b
    /\ \A i, j \in 1..Len(entries) : entries[i].id = entries[j].id => i = j

\* C20, reached: after two saves, a login and a delete, the profile of the
\* user was updated, and the entry that is left is the one tomorrow's save
\* created.
C20_Witness ==
    /\ Executed("update_user_profile")
    /\ db_result.value
    /\ users[1].last_login # PyNone
    /\ users[1].weight = PyInt(70)
    /\ removed = {1}
    /\ Len(entries) = 1
    /\ entries[1] = created[2]
    /\ entries[1].date = Tomorrow

-----------------------------------------------------------------------------
(* The stored users, under SpecUsers *)

\* The profile is stored: a row of users has its id and its email.
Stored(tbl, id, email) == \E u \in Rows(tbl) : u.id = id /\ u.email = email

\* C21, as stated: a user profile, once created by create_user, is never
\* deleted by any operation of the repository's code: no profile has been
\* deleted, and get_user_profile(id) returns the profile of every id that
\* create_user has returned.
C21_ProfileNeverDeleted ==
    /\ wiped = {}
    /\ \A p \in registered : Stored(users, p.id, p.email)
    /\ Executed("get_user_profile") =>
           \A p \in registered : p.id = db_result.user_id => db_result.value # PyNone

\* C21, amended: a step deletes a stored profile only if it is a run of
\* clear.py's clear_database, which deletes every profile at once; no method
\* of NutritionDatabase deletes one, and get_user_profile(id), when the
\* datastore executes its query, returns the stored profile of that id.
C21_OnlyTheScriptDeletes ==
    [][/\ (\E u \in Rows(users) : ~Stored(users', u.id, u.email)) =>
              /\ db_result'.op = "clear_database"
              /\ ~db_result'.failed
              /\ users' = <<>>
       /\ (db_result'.op = "get_user_profile" /\ ~db_result'.failed) =>
              \A u \in Rows(users) :
                  u.id = db_result'.user_id => db_result'.value = Profile(u)]_vars

\* C21, reached: after the database was emptied and the user registered again
\* and saved an entry, clear_user_data deleted the entry and the profile is
\* still stored.
C21_Witness ==
    /\ Executed("clear_user_data")
    /\ wiped # {}
    /\ before # <<>>
    /\ entries = <<>>
    /\ \E u \in Rows(users) : u.id = db_result.user_id /\ u.email \in wiped

\* C22: after any sequence of create_user calls (among the other operations),
\* no two stored users have the same email; create_user with an email that a
\* stored user has returns None and leaves the stored users, the existing
\* user's password hash and name included, unchanged.
C22_EmailsStayUnique ==
    [][/\ \A i, j \in 1..Len(users') : users'[i].email = users'[j].email => i = j
       /\ (db_result'.op = "create_user" /\ EmailTaken(users, db_result'.arg[1])) =>
              /\ db_result'.value = PyNone
              /\ users' = users]_vars

\* C22, reached: with both emails registered, a registration for one of them,
\* whose password and name had been edited since, was refused.
C22_Witness ==
    /\ Executed("create_user")
    /\ db_result.value = PyNone
    /\ Len(users) = 2
    /\ \E u \in Rows(users) :
           /\ u.email = db_result.arg[1]
           /\ u.password_hash = hash_password("lain")
           /\ u.goal = PyStr("lose")

\* The allow-list as documented
DocumentedAllowList == {"name", "weight", "height", "age", "activity_level", "goal"}

\* C23: update_user_profile changes only fields of the allow-list of the one
\* user with the given id, and those to the values given: id, email and
\* password_hash of that user and every field of every other user are
\* unchanged; keyword arguments outside the allow-list are ignored, and when
\* no allow-listed field is given it returns false and changes nothing.
C23_UpdateTouchesAllowedFieldsOfOneUser ==
    [][db_result'.op = "update_user_profile" =>
           LET id == db_result'.user_id
               kwargs == db_result'.arg[1]
               given == DocumentedAllowList \cap DOMAIN kwargs
           IN  /\ Len(users') = Len(users)
               /\ \A i \in 1..Len(users) :
                      IF users[i].id # id THEN users'[i] = users[i]
                      ELSE \A f \in DOMAIN users[i] :
                               users'[i][f] = IF f \in given /\ db_result'.value
                                              THEN kwargs[f] ELSE users[i][f]
               /\ given = {} => db_result'.value = FALSE /\ users' = users]_vars

\* C23, reached: of two registered users one has set the goal, with an email
\* and an id among the arguments, and has kept email and id; the other user has
\* the goal of the registration.
C23_Witness ==
    /\ Executed("update_user_profile")
    /\ db_result.value
    /\ "email" \in DOMAIN db_result.arg[1]
    /\ Len(users) = 2
    /\ \E u, v \in Rows(users) :
           /\ u.id = db_result.user_id /\ u.goal = PyStr("lose")
           /\ u.email \in {r[1] : r \in Registrations}
           /\ v.id # u.id /\ v.goal = PyStr("maintain")

-----------------------------------------------------------------------------
(* Datastore errors, under SpecDb *)

\* The value is the falsy value of the operation's kind: False, None, the empty
\* list, the empty dict, or a summary with every value 0.
FalsyFor(op, value) ==
    IF op \in {"add_daily_entry", "delete_entry", "clear_user_data", "update_user_profile"}
        THEN value = FALSE
    ELSE IF op \in {"create_user", "authenticate_user", "get_user_profile"}
        THEN value = PyNone
    ELSE IF op \in {"get_daily_entries", "get_entries_by_date_range"}
        THEN value = {}
    ELSE IF op = "get_user_summary"
        THEN DOMAIN value = {}
    ELSE /\ op = "get_daily_nutrition_summary"
         /\ value.food_count = 0 /\ value.total_water = 0 /\ value.total_exercise = 0
         /\ \A k \in {"total_calories", "total_protein", "total_fat", "total_carbs"} :
                value[k].m = 0

\* C24: when the datastore raises during a persistence operation, the
\* operation returns a falsy value (None, False, the empty list or the empty
\* dict; a zero-valued summary for the daily summary) from its except branch
\* instead of raising to the caller, and the stored users and entries are as
\* they were before the call.
C24_ErrorsGiveFalsyAndNoChange ==
    [][db_result'.failed =>
           /\ FalsyFor(db_result'.op, db_result'.value)
           /\ entries' = entries
           /\ users' = users
           /\ last_id' = last_id]_vars

\* C24, reached: with two entries stored and a user registered, the datastore
\* raised during the listing of a user who has an entry, and the listing is
\* empty.
C24_Witness ==
    /\ db_result.op = "get_daily_entries"
    /\ db_result.failed
    /\ db_result.value = {}
    /\ Len(users) = 1
    /\ Len(entries) = 2
    /\ \E r \in Rows(entries) : r.user_id = db_result.user_id

-----------------------------------------------------------------------------
(* The daily summary, under SpecDb *)

\* The stored rows of a user for a date, in the table's order
StoredFor(user_id, date) ==
    SelectSeq(entries, LAMBDA r : r.user_id = user_id /\ r.date = date)

\* The sum of a REAL and of an INTEGER column over the first n rows
RECURSIVE RealSum(_, _, _)
RealSum(rows, column, n) ==
    IF n = 0 THEN Dec(0, 0) ELSE DecAdd(RealSum(rows, column, n - 1), rows[n][column])

RECURSIVE IntSum(_, _, _)
IntSum(rows, column, n) ==
    IF n = 0 THEN 0 ELSE IntSum(rows, column, n - 1) + rows[n][column]

\* C27: after any sequence of add_daily_entry and delete_entry calls,
\* get_daily_nutrition_summary(user, date) returns food_count equal to the
\* number of that user's entries stored for that date and each total
\* (calories, protein, fat, carbs, water, exercise) equal to the sum of the
\* stored values over those entries; with no such entry every value is 0,
\* never None.
C27_DailySummaryIsTheSum ==
    Executed("get_daily_nutrition_summary") =>
        LET rows == StoredFor(db_result.user_id, db_result.arg[1])
            n == Len(rows)
            value == db_result.value
        IN  /\ value.food_count = n
            /\ value.total_calories = RealSum(rows, "calories", n)
            /\ value.total_protein = RealSum(rows, "protein", n)
            /\ value.total_fat = RealSum(rows, "fat", n)
            /\ value.total_carbs = RealSum(rows, "carbs", n)
            /\ value.total_water = IntSum(rows, "water_ml", n)
            /\ value.total_exercise = IntSum(rows, "exercise_min", n)
            /\ n = 0 => value = ZeroSummary

\* C27, reached: a user has two entries for one day, and the summary of that
\* day counts the two and has the water of both.
C27_Witness ==
    /\ Executed("get_daily_nutrition_summary")
    /\ db_result.value.food_count = 2
    /\ db_result.value.total_water = 500
    /\ db_result.value.total_calories.m > 0
    /\ Len(entries) = 2

-----------------------------------------------------------------------------
(* The manual-input save, under Spec *)

\* C26: one press of the manual-input save button triggers at most one
\* nutrition resolution and at most one add_daily_entry, in that order: a
\* resolution starts only from the idle handler, the entry is stored only once
\* the resolution has ended, which ends the handler, there are never more
\* entries than resolutions, and the stored entry is the pressing user's and
\* carries the bundle the resolution handed back (the resolver's bundle, or the
\* estimate get_nutrition_from_prediction makes of the weight when the
\* resolver raised).
C26_OneResolutionThenOneSave ==
    [][/\ clock' # clock => pc = "idle" /\ pc' = "check" /\ clock' = clock + 1
       /\ last_id' <= clock'
       /\ entries' # entries =>
            /\ pc = "done" /\ caller = "app" /\ pc' = "idle"
            /\ last_id' = last_id + 1
            /\ Len(entries') = Len(entries) + 1
            /\ LET row == created'[last_id']
                   bundle == row.nutrition_data
               IN  /\ row.user_id = app_input.user_id
                   /\ row.food_name = food_name
                   /\ IF outcome.exc = "" THEN bundle = outcome.val
                      ELSE /\ bundle.notes = PyStr("Error: " \o ExcMessage(outcome.exc))
                           /\ bundle.calories = PyNum(portion_size.n * 15, 1)]_vars

\* C26, reached: the handler is idle again after two presses, each with its
\* resolution, and each has stored its entry.
C26_Witness ==
    /\ pc = "idle"
    /\ clock = 2
    /\ last_id = 2
    /\ Len(entries) = 2
    /\ db_result.op = "add_daily_entry"
    /\ ~db_result.failed
    /\ \A i \in 1..2 : "notes" \in DOMAIN created[i].nutrition_data

-----------------------------------------------------------------------------
(* FoodImageClassifier.predict, under SpecPredict *)

\* C25: for every image and every top_k >= 1, predict returns at most top_k
\* (label, confidence) pairs, ordered by non-increasing confidence, each with a
\* confidence above 0.1 and within [0, 1], on every path: no model loaded,
\* the model raising, and every score filtered out.
C25_AtMostTopKOrderedAboveThreshold ==
    cl_results # NoPrediction =>
        /\ Len(cl_results) <= cl_top_k
        /\ \A i \in 1..(Len(cl_results) - 1) : cl_results[i][2] >= cl_results[i + 1][2]
        /\ \A i \in 1..Len(cl_results) : cl_results[i][2] > 10 /\ cl_results[i][2] <= 100

-----------------------------------------------------------------------------
(* The session, under SpecSession *)

\* C28: in the image-analysis tab, after the user presses the nutrition
\* button and then the save button, add_daily_entry is called for the
\* session's user with the analysed bundle: the run the save button's click
\* triggers stores the entry.
C28_SaveAfterAnalysisStores ==
    script_run.event = "img_save" =>
        /\ script_run.saved
        /\ db_result.op = "add_daily_entry"
        /\ db_result.user_id = session_state.user_id.n

\* C29: after any sequence of login attempts, logouts and page navigations,
\* session user is None exactly when session user_id is None; a page handler
\* (home, analysis, history, stats, profile) runs only in a run that began with
\* a user in the session; with no user in the session the run that was not cut
\* short by st.rerun() rendered the login page alone; and user becomes non-None
\* only in a run in which authenticate_user succeeded, as the profile and the
\* id it returned.
C29_SessionUserAndPages ==
    /\ [](/\ (session_state.user = PyNone) <=> (session_state.user_id = PyNone)
          /\ script_run.handler \in Pages => ~script_run.user_none
          /\ (session_state.user = PyNone /\ ~script_run.rerun) =>
                 script_run.handler = "login" /\ script_run.buttons = {"login"})
    /\ [][(session_state.user = PyNone /\ session_state'.user # PyNone) =>
              /\ script_run'.event = "login"
              /\ db_result'.op = "authenticate_user"
              /\ ~db_result'.failed
              /\ session_state'.user = db_result'.value
              /\ session_state'.user_id = PyInt(db_result'.value.id)]_vars

\* C29, reached: a user logged in, had an image analysed and logged out, and
\* the run after the logout rendered the login page.
C29_Witness ==
    /\ session_state.user = PyNone
    /\ session_state.user_id = PyNone
    /\ script_run.handler = "login"
    /\ script_run.event = "rerun"
    /\ ~script_run.rerun
    /\ db_result.op = "authenticate_user"
    /\ db_result.value # PyNone
    /\ session_state.prediction_result # <<>>

-----------------------------------------------------------------------------
(* analyze_multiple_foods, under SpecMultiple *)

\* C30: analyze_multiple_foods returns the analysis of the first prediction,
\* in list order, whose confidence is greater than 0.3, annotated with that
\* prediction's confidence, and resolves no later prediction; when no
\* prediction exceeds 0.3 it returns the analysis of the first prediction of
\* the list, and for an empty list the fallback estimate for "makanan"; in
\* every case it performs at most one resolution.
C30_FirstReasonablePredictionOnly ==
    /\ Len(multiple.resolved) <= 1
    /\ multiple.stage = "done" =>
          LET predictions == multiple.predictions
              above == {i \in 1..Len(predictions) : predictions[i][2] > 30}
              first == CHOOSE i \in above : \A j \in above : i <= j
              result == multiple.result
          IN  IF predictions = <<>>
              THEN /\ multiple.resolved = <<>>
                   /\ SansTime(result) =
                          SansTime(get_fallback_nutrition("makanan", PyStr("normal"), 0))
              ELSE /\ Len(multiple.resolved) = 1
                   /\ LET only == multiple.resolved[1]
                      IN  IF above = {}
                          THEN /\ only.index = 1
                               /\ only.food = predictions[1][1]
                               /\ result = only.outcome
                          ELSE /\ only.index = first
                               /\ only.food = predictions[first][1]
                               /\ result.exc = ""
                               /\ only.outcome.exc = ""
                               /\ DictWithout(result.val, "prediction_confidence")
                                      = only.outcome.val
                               /\ result.val["prediction_confidence"]
                                      = PyNum(predictions[first][2], 2)

\* C30, reached: the list began with a prediction of confidence 0.3 exactly,
\* the second, of confidence 0.7, was resolved by the remote service, and its
\* bundle came back annotated.
C30_Witness ==
    /\ multiple.stage = "done"
    /\ Len(multiple.predictions) = 2
    /\ multiple.predictions[1][2] = 30
    /\ multiple.predictions[2][2] = 70
    /\ Len(multiple.resolved) = 1
    /\ multiple.resolved[1].index = 2
    /\ DictGet(multiple.result.val, "source", PyNone) = PyStr("deepseek_api")
    /\ multiple.result.val["prediction_confidence"] = PyNum(70, 2)

====
